---- MODULE Spec2Model ----
(***************************************************************************)
(* Replenishment-and-production pipeline of the retail supply chain:       *)
(* inventory service (stock ledger, procurement log, dispatcher), kitchen  *)
(* service (requirement planner, feasibility gate, batch log) and the      *)
(* finance approval endpoint they call.                                    *)
(***************************************************************************)
EXTENDS Integers, Sequences, FiniteSets, TLC

VARIABLES
    inventory,          \* inventory table: item -> quantity (rows present only)
    procurement_log,    \* procurement_log table, in insertion order
    purchase_requests,  \* finance purchase_requests table, in insertion order
    batch_consumption,  \* kitchen batch_consumption table, in insertion order
    clock,              \* int(datetime.utcnow().timestamp())
    response,           \* what the last handler did and returned
    probe,              \* last evaluation of the pure trigger functions
    threads,            \* concurrent apply_consumption calls, each on its own connection
    db_lock             \* the connection holding indago_inventory.db's write lock, 0 if none

vars == <<inventory, procurement_log, purchase_requests, batch_consumption,
          clock, response, probe, threads, db_lock>>

(***************************************************************************)
(* Bounds                                                                  *)
(***************************************************************************)
MaxRows == 2        \* rows in one consumption batch
MaxLog == 2         \* rows in procurement_log / purchase_requests
MaxClock == 1       \* seconds the clock may advance
MaxOrders == 2      \* orders in one response of the orders feed
MaxBatch == 4       \* rows in batch_consumption
MaxDelta == 10      \* probed remaining quantities: this far around each boundary

Max(a, b) == IF a >= b THEN a ELSE b

(***************************************************************************)
(* JSON scalars as they arrive in request bodies                           *)
(***************************************************************************)
JInt(n) == [t |-> "int", v |-> n]
JStr == [t |-> "str", v |-> 0]          \* a non-numeric string

\* Python int(x): the integer, or an exception for a non-numeric value
py_int(x) == IF x.t = "int" THEN [ok |-> TRUE, v |-> x.v] ELSE [ok |-> FALSE, v |-> 0]

(***************************************************************************)
(* Inventory service: configuration                                        *)
(***************************************************************************)
SEED_INVENTORY == [beans |-> 10000, milk |-> 100000]
ITEM_UNITS == [beans |-> "g", milk |-> "ml"]
\* LOW_STOCK_THRESHOLD = 0.1 : baseline * 0.1 is baseline / LowStockDivisor
LowStockDivisor == 10
BUDGET_LIMIT == 500000

\* init_db: creates the tables and seeds the inventory
init_db == [inventory |-> SEED_INVENTORY, procurement_log |-> << >>]

(***************************************************************************)
(* Replenishment trigger                                                   *)
(***************************************************************************)
should_trigger_purchase_strict(item, remaining) ==
    /\ item \in DOMAIN SEED_INVENTORY
    /\ remaining < SEED_INVENTORY[item] \div LowStockDivisor

\* A trigger that gives an item without baseline the baseline 0
should_trigger_purchase_default_baseline(item, remaining) ==
    remaining <= (IF item \in DOMAIN SEED_INVENTORY THEN SEED_INVENTORY[item] ELSE 0)
                    \div LowStockDivisor

\* baseline * 0.1 is an exact float for the seeded baselines (multiples of 10),
\* so the comparison with the integer remaining is the integer comparison.
should_trigger_purchase(item, remaining) ==
    /\ item \in DOMAIN SEED_INVENTORY
    /\ remaining <= SEED_INVENTORY[item] \div LowStockDivisor

\* A replenishment of a fixed lot, half the baseline
calculate_replenishment_quantity_fixed_lot(item, remaining) ==
    (IF item \in DOMAIN SEED_INVENTORY THEN SEED_INVENTORY[item] ELSE 0) \div 2

calculate_replenishment_quantity_nofloor(item, remaining) ==
    LET baseline == IF item \in DOMAIN SEED_INVENTORY THEN SEED_INVENTORY[item] ELSE 0
    IN  baseline - remaining

\* int(baseline * 0.5) truncates; baselines are non-negative
calculate_replenishment_quantity(item, remaining) ==
    LET baseline == IF item \in DOMAIN SEED_INVENTORY THEN SEED_INVENTORY[item] ELSE 0
    IN  Max(baseline - remaining, baseline \div 2)

(***************************************************************************)
(* Finance service: approval endpoint                                      *)
(***************************************************************************)
evaluate_purchase_request(estimated_cost) ==
    IF estimated_cost <= BUDGET_LIMIT THEN "APPROVED" ELSE "REJECTED"

\* POST /PurchaseRequest: result is the finance table and the HTTP status
process_purchase_request(fin, data) ==
    IF ~ ({"order_id", "item_name", "quantity_needed", "estimated_cost"} \subseteq DOMAIN data)
    THEN [fin |-> fin, http |-> 400]
    ELSE LET status == evaluate_purchase_request(data.estimated_cost)
         IN  [fin |-> Append(fin, [order_id |-> data.order_id,
                                   item_name |-> data.item_name,
                                   quantity_needed |-> data.quantity_needed,
                                   estimated_cost |-> data.estimated_cost,
                                   status |-> status]),
              http |-> IF status = "APPROVED" THEN 201 ELSE 403]

\* What the network does to one requests.post(..., timeout=5):
\*   "ok"   request delivered, response received
\*   "down" transport error, the request never reaches finance
\*   "lost" request delivered and processed, the response times out
\*   "err"  finance answers 500 without recording the request
Net == {"ok", "down", "lost", "err"}

\* requests.post(FINANCE_PURCHASE_ENDPOINT, json=payload, timeout=5);
\* http = 0 stands for an exception raised by requests.post itself
post_purchase_request(fin, payload, net) ==
    IF net = "down" THEN [fin |-> fin, http |-> 0]
    ELSE IF net = "err" THEN [fin |-> fin, http |-> 500]
    ELSE LET r == process_purchase_request(fin, payload)
         IN  IF net = "lost" THEN [fin |-> r.fin, http |-> 0] ELSE r

\* resp.raise_for_status() raises for 4xx and 5xx
raises_for_status(http) == http >= 400

(***************************************************************************)
(* Procurement log and dispatcher                                          *)
(***************************************************************************)
has_open_procurement_pending_only(log, item) ==
    \E i \in DOMAIN log : log[i].item_name = item /\ log[i].status = "pending"

\* A guard for which every earlier request of the item is open, failed or not
has_open_procurement_any_row(log, item) ==
    \E i \in DOMAIN log : log[i].item_name = item

\* A guard that counts only the dispatcher's own requests as open
has_open_procurement_auto_only(log, item) ==
    \E i \in DOMAIN log :
        /\ log[i].item_name = item
        /\ log[i].status \in {"pending", "submitted"}
        /\ log[i].order_id[1] = "PR"

has_open_procurement(log, item) ==
    \E i \in DOMAIN log :
        log[i].item_name = item /\ log[i].status \in {"pending", "submitted"}

\* A log keyed by item: a new row takes the place of the item's earlier one
log_procurement_replacing(log, payload, status, now) ==
    LET row == [order_id |-> payload.order_id,
                item_name |-> payload.item_name,
                quantity_needed |-> payload.quantity_needed,
                unit |-> payload.unit,
                status |-> status,
                current_stock |-> payload.current_stock,
                estimated_cost |-> payload.estimated_cost,
                created_at |-> now]
    IN  IF \E k \in DOMAIN log : log[k].item_name = payload.item_name
        THEN [k \in DOMAIN log |->
                 IF log[k].item_name = payload.item_name THEN row ELSE log[k]]
        ELSE Append(log, row)

\* The payload column holds the JSON of the payload: beyond the columns above it,
\* its current_stock and estimated_cost. The response column (the body or the
\* error text, which nothing reads back) is left out of the row.
log_procurement(log, payload, status, now) ==
    Append(log, [order_id |-> payload.order_id,
                 item_name |-> payload.item_name,
                 quantity_needed |-> payload.quantity_needed,
                 unit |-> payload.unit,
                 status |-> status,
                 current_stock |-> payload.current_stock,
                 estimated_cost |-> payload.estimated_cost,
                 created_at |-> now])

\* A transaction of the inventory service in progress:
\*   inv, log  the tables as the open connection sees them
\*   fin       the finance table (remote, changed at once)
\*   calls     Approval calls made so far by this handler
\*   http      HTTP status of the last Approval call (0: requests.post raised,
\*             -1: no call made for the current row)
\*   raised    an exception is propagating
\*   trace     one entry per processed consumption row
Tx(inv, log, fin) ==
    [inv |-> inv, log |-> log, fin |-> fin, calls |-> 0, http |-> -1,
     raised |-> FALSE, trace |-> << >>]

\* A try block that forgets resp.raise_for_status()
status_after_post_unchecked(http) ==
    IF http = 0 THEN "failed" ELSE "submitted"

\* An except clause that leaves status as it was initialised
status_after_post_unresolved(http) ==
    IF http = 0 \/ raises_for_status(http) THEN "pending" ELSE "submitted"

\* The status the try/except around requests.post leaves behind: an exception
\* of requests.post (http = 0) or of raise_for_status is caught
status_after_post(http) ==
    IF http = 0 \/ raises_for_status(http) THEN "failed" ELSE "submitted"

auto_payload(item, remaining, now) ==
    [order_id |-> <<"PR", item, now>>,
     item_name |-> item,
     quantity_needed |-> calculate_replenishment_quantity(item, remaining),
     unit |-> IF item \in DOMAIN ITEM_UNITS THEN ITEM_UNITS[item] ELSE "None",
     current_stock |-> remaining,
     estimated_cost |-> 0]

\* A dispatcher that lets the exception of a failed Approval call escape
trigger_purchase_request_reraising(tx, item, remaining, now) ==
    IF has_open_procurement(tx.log, item) THEN {tx}
    ELSE LET payload == auto_payload(item, remaining, now)
         IN  { LET r == post_purchase_request(tx.fin, payload, net)
                   status == status_after_post(r.http)
               IN  IF status = "failed"
                   THEN [tx EXCEPT !.fin = r.fin, !.calls = @ + 1, !.http = r.http,
                                   !.raised = TRUE]
                   ELSE [tx EXCEPT !.fin = r.fin, !.calls = @ + 1, !.http = r.http,
                                   !.log = log_procurement(@, payload, status, now)]
             : net \in Net }

\* A dispatcher that books the requested quantity into the ledger once Finance
\* has accepted the request
trigger_purchase_request_restocking(tx, item, remaining, now) ==
    IF has_open_procurement(tx.log, item) THEN {tx}
    ELSE LET payload == auto_payload(item, remaining, now)
         IN  { LET r == post_purchase_request(tx.fin, payload, net)
                   status == status_after_post(r.http)
               IN  [tx EXCEPT !.fin = r.fin, !.calls = @ + 1, !.http = r.http,
                              !.log = log_procurement(@, payload, status, now),
                              !.inv = IF status = "submitted"
                                      THEN [@ EXCEPT ![item] = @ + payload.quantity_needed]
                                      ELSE @]
             : net \in Net }

\* A dispatcher that posts a second time when the first call fails
trigger_purchase_request_retrying(tx, item, remaining, now) ==
    IF has_open_procurement(tx.log, item) THEN {tx}
    ELSE LET payload == auto_payload(item, remaining, now)
         IN  { LET first == post_purchase_request(tx.fin, payload, net)
                   failed == status_after_post(first.http) = "failed"
                   r == IF failed THEN post_purchase_request(first.fin, payload, again)
                        ELSE first
               IN  [tx EXCEPT !.fin = r.fin, !.calls = @ + (IF failed THEN 2 ELSE 1),
                              !.http = r.http,
                              !.log = log_procurement(@, payload,
                                                      status_after_post(r.http), now)]
             : net \in Net, again \in Net }

\* trigger_purchase_request(cursor, item, remaining): the set of transactions
\* it can leave, one per behaviour of the network
trigger_purchase_request(tx, item, remaining, now) ==
    IF has_open_procurement(tx.log, item) THEN {tx}
    ELSE LET payload == auto_payload(item, remaining, now)
         IN  { LET r == post_purchase_request(tx.fin, payload, net)
                   status == status_after_post(r.http)
               IN  [tx EXCEPT !.fin = r.fin, !.calls = @ + 1, !.http = r.http,
                              !.log = log_procurement(@, payload, status, now)]
             : net \in Net }

(***************************************************************************)
(* Stock consumption                                                       *)
(***************************************************************************)
new_quantity_unclamped(current, qty) == current - qty

new_quantity(current, qty) == Max(current - qty, 0)

\* One iteration of the loop of apply_consumption
apply_row(tx, row, now) ==
    IF ~ ("item" \in DOMAIN row) \/ ~ ("quantity" \in DOMAIN row) \/ ~ py_int(row.quantity).ok
    THEN {[tx EXCEPT !.raised = TRUE]}
    ELSE LET item == row.item
             qty == py_int(row.quantity).v
             fetched == item \in DOMAIN tx.inv
             current == IF fetched THEN tx.inv[item] ELSE 0
             new_qty == new_quantity(current, qty)
             inv2 == [i \in DOMAIN tx.inv \cup {item} |-> IF i = item THEN new_qty ELSE tx.inv[i]]
             tx2 == [tx EXCEPT !.inv = inv2, !.http = -1]
             fired == should_trigger_purchase(item, new_qty)
             outs == IF fired THEN trigger_purchase_request(tx2, item, new_qty, now) ELSE {tx2}
         IN  { [o EXCEPT !.trace = Append(@, [item |-> item, quantity |-> qty,
                                              current |-> current, new_qty |-> new_qty,
                                              fired |-> fired,
                                              open |-> { r.order_id : r \in
                                                  { tx.log[i] : i \in { j \in DOMAIN tx.log :
                                                      /\ tx.log[j].item_name = item
                                                      /\ tx.log[j].status \in {"pending", "submitted"} } } },
                                              log_before |-> Len(tx.log), log_after |-> Len(o.log),
                                              logged |-> SubSeq(o.log, Len(tx.log) + 1, Len(o.log)),
                                              calls_before |-> tx.calls, calls_after |-> o.calls,
                                              http |-> o.http])]
               : o \in outs }

\* The loop of apply_consumption: rows in input order, stopping at an exception
RECURSIVE apply_rows(_, _, _)
apply_rows(tx, rows, now) ==
    IF rows = << >> \/ tx.raised THEN {tx}
    ELSE UNION { apply_rows(o, Tail(rows), now) : o \in apply_row(tx, Head(rows), now) }

\* apply_consumption(consumption): the loop, then conn.commit(); an exception
\* leaves the connection uncommitted and its changes are rolled back
apply_consumption(inv, log, fin, consumption, now) ==
    { [inventory |-> IF o.raised THEN inv ELSE o.inv,
       procurement_log |-> IF o.raised THEN log ELSE o.log,
       purchase_requests |-> o.fin,
       raised |-> o.raised,
       calls |-> o.calls,
       trace |-> o.trace]
      : o \in apply_rows(Tx(inv, log, fin), consumption, now) }

(***************************************************************************)
(* Inventory API                                                           *)
(***************************************************************************)
\* GET /stock: one entry per row of the inventory table
get_stock(inv) ==
    { [item |-> i, quantity |-> inv[i],
       unit |-> IF i \in DOMAIN ITEM_UNITS THEN ITEM_UNITS[i] ELSE "None"] : i \in DOMAIN inv }

\* An endpoint that applies the dispatcher's open-request guard
manual_purchase_request_guarded(inv, log, fin, data, net, now) ==
    LET rejected == [procurement_log |-> log, purchase_requests |-> fin,
                     http_status |-> 400, calls |-> 0, status |-> "none",
                     finance_http_status |-> -1]
    IN
    IF ~ ({"item_name", "quantity_needed", "estimated_cost"} \subseteq DOMAIN data)
    THEN rejected
    ELSE IF ~ py_int(data.quantity_needed).ok THEN rejected
    ELSE IF ~ py_int(data.estimated_cost).ok THEN rejected
    ELSE IF has_open_procurement(log, data.item_name)
    THEN [rejected EXCEPT !.http_status = 409]
    ELSE LET item == data.item_name
             payload == [order_id |-> IF "order_id" \in DOMAIN data THEN data.order_id
                                      ELSE <<"MANUAL-PR", item, now>>,
                         item_name |-> item,
                         quantity_needed |-> py_int(data.quantity_needed).v,
                         unit |-> IF item \in DOMAIN ITEM_UNITS THEN ITEM_UNITS[item] ELSE "units",
                         current_stock |-> IF item \in DOMAIN inv THEN inv[item] ELSE 0,
                         estimated_cost |-> py_int(data.estimated_cost).v]
             r == post_purchase_request(fin, payload, net)
             status == status_after_post(r.http)
         IN  [procurement_log |-> log_procurement(log, payload, status, now),
              purchase_requests |-> r.fin,
              http_status |-> IF status # "failed" THEN 200 ELSE 502,
              calls |-> 1,
              status |-> status,
              finance_http_status |-> r.http]

\* POST /purchase-request: validation, one Approval call, one log row, commit.
\* http_status is the status the endpoint answers with.
manual_purchase_request(inv, log, fin, data, net, now) ==
    LET rejected == [procurement_log |-> log, purchase_requests |-> fin,
                     http_status |-> 400, calls |-> 0, status |-> "none",
                     finance_http_status |-> -1]
    IN
    IF ~ ({"item_name", "quantity_needed", "estimated_cost"} \subseteq DOMAIN data)
    THEN rejected
    ELSE IF ~ py_int(data.quantity_needed).ok THEN rejected
    ELSE IF ~ py_int(data.estimated_cost).ok THEN rejected
    ELSE LET item == data.item_name
             current_stock == IF item \in DOMAIN inv THEN inv[item] ELSE 0
             order_id == IF "order_id" \in DOMAIN data THEN data.order_id
                         ELSE <<"MANUAL-PR", item, now>>
             payload == [order_id |-> order_id,
                         item_name |-> item,
                         quantity_needed |-> py_int(data.quantity_needed).v,
                         unit |-> IF item \in DOMAIN ITEM_UNITS THEN ITEM_UNITS[item] ELSE "units",
                         current_stock |-> current_stock,
                         estimated_cost |-> py_int(data.estimated_cost).v]
             r == post_purchase_request(fin, payload, net)
             status == status_after_post(r.http)
         IN  [procurement_log |-> log_procurement(log, payload, status, now),
              purchase_requests |-> r.fin,
              http_status |-> IF status # "failed" THEN 200 ELSE 502,
              calls |-> 1,
              status |-> status,
              finance_http_status |-> r.http]

(***************************************************************************)
(* Concurrent requests: the store as sqlite3 shares it between connections *)
(***************************************************************************)
\* Every request opens its own connection (get_db). A connection's first
\* INSERT or UPDATE opens a transaction and takes the database's write lock,
\* kept until commit or close; a second connection that wants it waits up to
\* its busy timeout and then raises "database is locked".

\* A store that hands the write lock to whoever asks
can_write_unlocked(lock, p) == TRUE

\* The write lock is free, or this connection already has it
can_write(lock, p) == lock \in {0, p}

\* A store whose readers see the rows of open transactions
visible_after_update_dirty(committed, view) == view

\* The inventory table as other connections read it after an UPDATE inside an
\* open transaction: the committed rows
visible_after_update(committed, view) == committed

(***************************************************************************)
(* Kitchen service                                                         *)
(***************************************************************************)
RECIPES ==
    [capucino |-> << [item |-> "beans", qty_per_unit |-> 10, unit |-> "g"],
                     [item |-> "milk", qty_per_unit |-> 150, unit |-> "ml"] >>,
     Latte    |-> << [item |-> "beans", qty_per_unit |-> 8, unit |-> "g"],
                     [item |-> "milk", qty_per_unit |-> 200, unit |-> "ml"] >>]

\* required: the defaultdict, as the sequence of its entries in insertion order
required_index(required, item) ==
    IF \E i \in DOMAIN required : required[i].item = item
    THEN CHOOSE i \in DOMAIN required : required[i].item = item
    ELSE 0

\* An accumulation that assigns where it should add
accumulate_line_overwrite(required, r, qty) ==
    LET i == required_index(required, r.item)
    IN  IF i = 0
        THEN Append(required, [item |-> r.item, quantity |-> qty * r.qty_per_unit, unit |-> r.unit])
        ELSE [required EXCEPT ![i] = [item |-> r.item,
                                      quantity |-> qty * r.qty_per_unit,
                                      unit |-> r.unit]]

\* required[r["item"]]["quantity"] += qty * r["qty_per_unit"]; ["unit"] = r["unit"]
accumulate_line(required, r, qty) ==
    LET i == required_index(required, r.item)
    IN  IF i = 0
        THEN Append(required, [item |-> r.item, quantity |-> qty * r.qty_per_unit, unit |-> r.unit])
        ELSE [required EXCEPT ![i] = [item |-> r.item,
                                      quantity |-> @.quantity + qty * r.qty_per_unit,
                                      unit |-> r.unit]]

RECURSIVE accumulate_recipe(_, _, _)
accumulate_recipe(required, recipe, qty) ==
    IF recipe = << >> THEN required
    ELSE accumulate_recipe(accumulate_line(required, Head(recipe), qty), Tail(recipe), qty)

\* A loop that stops at the first product without a recipe
RECURSIVE plan_orders_stopping(_, _)
plan_orders_stopping(acc, daily_orders) ==
    IF daily_orders = << >> THEN acc
    ELSE LET order == Head(daily_orders)
             product == order.product
             qty == order.quantity
         IN  IF product \notin DOMAIN RECIPES
             THEN [acc EXCEPT !.skipped_products = Append(@, product)]
             ELSE plan_orders_stopping([acc EXCEPT !.required =
                                            accumulate_recipe(@, RECIPES[product], qty)],
                                       Tail(daily_orders))

\* The loop over daily_orders: the required materials and the skipped products
RECURSIVE plan_orders(_, _)
plan_orders(acc, daily_orders) ==
    IF daily_orders = << >> THEN acc
    ELSE LET order == Head(daily_orders)
             product == order.product
             qty == order.quantity
         IN  IF product \notin DOMAIN RECIPES
             THEN plan_orders([acc EXCEPT !.skipped_products = Append(@, product)],
                              Tail(daily_orders))
             ELSE plan_orders([acc EXCEPT !.required =
                                   accumulate_recipe(@, RECIPES[product], qty)],
                              Tail(daily_orders))

\* stock_lookup.get(item, 0) over the entries of a GET /stock response
stock_available(stock, item) ==
    IF \E s \in stock : s.item = item
    THEN (CHOOSE s \in stock : s.item = item).quantity
    ELSE 0

\* A validation loop that stops at the first shortfall
find_insufficient_first_only(required, stock) ==
    LET short == { i \in DOMAIN required :
                     stock_available(stock, required[i].item) < required[i].quantity }
    IN  IF short = {} THEN << >>
        ELSE LET i == CHOOSE i \in short : \A j \in short : i <= j
             IN  << [item |-> required[i].item, required |-> required[i].quantity,
                     available |-> stock_available(stock, required[i].item),
                     unit |-> required[i].unit] >>

\* A gate that lets every requirement through
find_insufficient_disabled(required, stock) == << >>

\* The validation loop: every required item with available < required
RECURSIVE find_insufficient(_, _)
find_insufficient(required, stock) ==
    IF required = << >> THEN << >>
    ELSE LET req == Head(required)
             available == stock_available(stock, req.item)
             rest == find_insufficient(Tail(required), stock)
         IN  IF available < req.quantity
             THEN << [item |-> req.item, required |-> req.quantity,
                      available |-> available, unit |-> req.unit] >> \o rest
             ELSE rest

\* An insert loop that leaves after its first row
insert_batch_first_only(batch, required, production_date, now) ==
    IF required = << >> THEN batch
    ELSE Append(batch, [production_date |-> production_date,
                        item |-> Head(required).item,
                        quantity |-> Head(required).quantity,
                        unit |-> Head(required).unit,
                        created_at |-> now])

\* An insert loop that overwrites the row of (production_date, item) if there is one
RECURSIVE insert_batch_upsert(_, _, _, _)
insert_batch_upsert(batch, required, production_date, now) ==
    IF required = << >> THEN batch
    ELSE LET row == [production_date |-> production_date,
                     item |-> Head(required).item,
                     quantity |-> Head(required).quantity,
                     unit |-> Head(required).unit,
                     created_at |-> now]
             same == { i \in DOMAIN batch : /\ batch[i].production_date = production_date
                                            /\ batch[i].item = row.item }
         IN  insert_batch_upsert(IF same = {} THEN Append(batch, row)
                                 ELSE [i \in DOMAIN batch |-> IF i \in same THEN row ELSE batch[i]],
                                 Tail(required), production_date, now)

\* The insert loop: one batch_consumption row per entry of required
RECURSIVE insert_batch(_, _, _, _)
insert_batch(batch, required, production_date, now) ==
    IF required = << >> THEN batch
    ELSE insert_batch(Append(batch, [production_date |-> production_date,
                                     item |-> Head(required).item,
                                     quantity |-> Head(required).quantity,
                                     unit |-> Head(required).unit,
                                     created_at |-> now]),
                      Tail(required), production_date, now)

\* A run that fetches the stock snapshot before it looks at the orders
start_production_stock_first(batch, production_date, orders_resp, stock_resp, now) ==
    LET base == [batch |-> batch, http_status |-> 200, status |-> "success",
                 date |-> production_date, required |-> << >>,
                 skipped_products |-> << >>, details |-> << >>,
                 inserted_rows |-> 0, stock_fetched |-> TRUE]
    IN
    IF ~ orders_resp.ok
    THEN [base EXCEPT !.http_status = 502, !.status = "error", !.stock_fetched = FALSE]
    ELSE IF ~ stock_resp.ok
    THEN [base EXCEPT !.http_status = 502, !.status = "error"]
    ELSE
    LET daily_orders == SelectSeq(orders_resp.body, LAMBDA o : o.date = production_date)
        planned == plan_orders([required |-> << >>, skipped_products |-> << >>], daily_orders)
        insufficient == find_insufficient(planned.required, stock_resp.body)
    IN
    IF daily_orders = << >>
    THEN [base EXCEPT !.status = "no_orders"]
    ELSE IF planned.required = << >>
    THEN [base EXCEPT !.status = "no_recipes_matched",
                      !.skipped_products = planned.skipped_products]
    ELSE IF insufficient # << >>
    THEN [base EXCEPT !.http_status = 400, !.status = "insufficient",
                      !.details = insufficient, !.required = planned.required]
    ELSE [base EXCEPT !.batch = insert_batch(batch, planned.required, production_date, now),
                      !.required = planned.required,
                      !.inserted_rows = Len(planned.required),
                      !.skipped_products = planned.skipped_products]

\* start_production(production_date) behind POST /start-production.
\*   orders_resp, stock_resp: [ok, body] of the two upstream GETs
\* The result carries the new batch table, the route's HTTP status and the
\* returned fields; stock_fetched tells whether GET /stock was requested.
start_production(batch, production_date, orders_resp, stock_resp, now) ==
    LET base == [batch |-> batch, http_status |-> 200, status |-> "success",
                 date |-> production_date, required |-> << >>,
                 skipped_products |-> << >>, details |-> << >>,
                 inserted_rows |-> 0, stock_fetched |-> FALSE]
    IN
    IF ~ orders_resp.ok
    THEN [base EXCEPT !.http_status = 502, !.status = "error"]
    ELSE
    LET orders == orders_resp.body
        daily_orders == SelectSeq(orders, LAMBDA o : o.date = production_date)
    IN
    IF daily_orders = << >>
    THEN [base EXCEPT !.status = "no_orders"]
    ELSE
    LET planned == plan_orders([required |-> << >>, skipped_products |-> << >>], daily_orders)
        required == planned.required
        skipped_products == planned.skipped_products
    IN
    IF required = << >>
    THEN [base EXCEPT !.status = "no_recipes_matched", !.skipped_products = skipped_products]
    ELSE IF ~ stock_resp.ok
    THEN [base EXCEPT !.http_status = 502, !.status = "error", !.stock_fetched = TRUE]
    ELSE
    LET insufficient == find_insufficient(required, stock_resp.body)
    IN
    IF insufficient # << >>
    THEN [base EXCEPT !.http_status = 400, !.status = "insufficient",
                      !.details = insufficient, !.required = required,
                      !.stock_fetched = TRUE]
    ELSE [base EXCEPT !.batch = insert_batch(batch, required, production_date, now),
                      !.required = required,
                      !.inserted_rows = Len(required),
                      !.skipped_products = skipped_products,
                      !.stock_fetched = TRUE]

\* A batch keyed by date and item: the first row of each item only
get_batch_distinct(batch, production_date) ==
    LET columns(r) == [production_date |-> r.production_date, item |-> r.item,
                       quantity |-> r.quantity, unit |-> r.unit]
        selected == SelectSeq(batch, LAMBDA r : r.production_date = production_date)
        of_item(item) == SelectSeq(selected, LAMBDA r : r.item = item)
        first_of(item) == IF of_item(item) = << >> THEN << >> ELSE << of_item(item)[1] >>
        ordered == first_of("beans") \o first_of("milk")
    IN  [i \in DOMAIN ordered |-> columns(ordered[i])]

\* GET /batch?date=: the rows of the date, ORDER BY item (ties in table order)
get_batch(batch, production_date) ==
    LET columns(r) == [production_date |-> r.production_date, item |-> r.item,
                       quantity |-> r.quantity, unit |-> r.unit]
        selected == SelectSeq(batch, LAMBDA r : r.production_date = production_date)
        of_item(item) == SelectSeq(selected, LAMBDA r : r.item = item)
        ordered == of_item("beans") \o of_item("milk")
    IN  [i \in DOMAIN ordered |-> columns(ordered[i])]

(***************************************************************************)
(* Inventory service: consumption pulled from the kitchen                  *)
(***************************************************************************)
\* The "consumption" list of the JSON body of GET /batch
batch_body(batch, production_date) ==
    LET rows == get_batch(batch, production_date)
    IN  [k \in DOMAIN rows |-> [production_date |-> rows[k].production_date,
                                item |-> rows[k].item,
                                quantity |-> JInt(rows[k].quantity),
                                unit |-> rows[k].unit]]

\* POST /consume?date=: 400 without a date; the GET of the kitchen's batch can
\* fail (batch_ok = FALSE) and raises out of the route; otherwise
\* apply_consumption on the rows received. The set of results, one per
\* behaviour of the network towards Finance.
consume_from_kitchen(inv, log, fin, batch, date, batch_ok, now) ==
    LET untouched(http) == [inventory |-> inv, procurement_log |-> log,
                            purchase_requests |-> fin, http_status |-> http,
                            consumption |-> << >>, raised |-> http = 500,
                            calls |-> 0, trace |-> << >>]
    IN  IF date = "" THEN {untouched(400)}
        ELSE IF ~ batch_ok THEN {untouched(500)}
        ELSE LET consumption == batch_body(batch, date)
             IN  { [inventory |-> o.inventory, procurement_log |-> o.procurement_log,
                    purchase_requests |-> o.purchase_requests,
                    http_status |-> IF o.raised THEN 500 ELSE 200,
                    consumption |-> consumption, raised |-> o.raised,
                    calls |-> o.calls, trace |-> o.trace]
                   : o \in apply_consumption(inv, log, fin, consumption, now) }

\* A route that takes a failed fetch for an empty answer
start_production_route_lenient(batch, production_date, orders_resp, stock_resp, now) ==
    IF production_date = ""
    THEN [batch |-> batch, http_status |-> 400, status |-> "date_required",
          date |-> production_date, required |-> << >>,
          skipped_products |-> << >>, details |-> << >>,
          inserted_rows |-> 0, stock_fetched |-> FALSE]
    ELSE start_production(batch, production_date,
                          IF orders_resp.ok THEN orders_resp ELSE [ok |-> TRUE, body |-> << >>],
                          IF stock_resp.ok THEN stock_resp ELSE [ok |-> TRUE, body |-> {}],
                          now)

\* POST /start-production: a missing date is answered 400 before anything runs
start_production_route(batch, production_date, orders_resp, stock_resp, now) ==
    IF production_date = ""
    THEN [batch |-> batch, http_status |-> 400, status |-> "date_required",
          date |-> production_date, required |-> << >>,
          skipped_products |-> << >>, details |-> << >>,
          inserted_rows |-> 0, stock_fetched |-> FALSE]
    ELSE start_production(batch, production_date, orders_resp, stock_resp, now)

\* kitchen_app.py: the same planner and gate without the HTTP route;
\* start_production(BOOT_DATE) runs at every start of that service. It returns
\* nothing: a run shows as the line it prints or the exception that ends it.
BOOT_DATE == "2025-12-12"

start_production_boot(batch, production_date, orders_resp, stock_resp, now) ==
    LET base == [batch |-> batch, printed |-> "", raised |-> "none",
                 date |-> production_date, required |-> << >>, details |-> << >>,
                 inserted_rows |-> 0, stock_fetched |-> FALSE]
    IN
    IF ~ orders_resp.ok
    THEN [base EXCEPT !.raised = "HTTPError"]
    ELSE
    LET orders == orders_resp.body
        daily_orders == SelectSeq(orders, LAMBDA o : o.date = production_date)
    IN
    IF daily_orders = << >>
    THEN [base EXCEPT !.printed = "No orders"]
    ELSE
    LET required == plan_orders([required |-> << >>, skipped_products |-> << >>],
                                daily_orders).required
    IN
    IF ~ stock_resp.ok
    THEN [base EXCEPT !.raised = "HTTPError", !.stock_fetched = TRUE]
    ELSE
    LET insufficient == find_insufficient(required, stock_resp.body)
    IN
    IF insufficient # << >>
    THEN [base EXCEPT !.raised = "RuntimeError", !.details = insufficient,
                      !.stock_fetched = TRUE]
    ELSE [base EXCEPT !.batch = insert_batch(batch, required, production_date, now),
                      !.printed = "Production completed",
                      !.required = required,
                      !.inserted_rows = Len(required),
                      !.stock_fetched = TRUE]

\* The insert loop up to an INSERT that raises: the rows before it sit in the
\* connection's open transaction
insert_batch_until(batch, required, production_date, now, fail_at) ==
    insert_batch(batch, SubSeq(required, 1, fail_at - 1), production_date, now)

\* A connection that wrote each INSERT through at once
close_uncommitted_autocommit(committed, pending) == pending

\* A connection dropped before conn.commit(): sqlite3 rolls its open
\* transaction back, the table is what was committed before
close_uncommitted(committed, pending) == committed

\* POST /start-production when INSERT number fail_at of the insert loop raises
\* (sqlite3.Error): start_production lets it through, conn.commit() is not
\* reached and the route answers 500
start_production_store_failure(batch, production_date, orders_resp, stock_resp, now, fail_at) ==
    LET out == start_production_route(batch, production_date, orders_resp, stock_resp, now)
    IN  IF out.status = "success" /\ fail_at \in 1 .. Len(out.required)
        THEN [out EXCEPT !.batch = close_uncommitted(batch,
                                       insert_batch_until(batch, out.required,
                                                          production_date, now, fail_at)),
                         !.http_status = 500,
                         !.status = "error",
                         !.required = << >>,
                         !.skipped_products = << >>,
                         !.inserted_rows = 0]
        ELSE out


(***************************************************************************)
(* Inputs                                                                  *)
(***************************************************************************)
ConsumptionRows ==
    { [item |-> "beans", quantity |-> JInt(9000)],
      [item |-> "sugar", quantity |-> JInt(5)],
      [item |-> "beans", quantity |-> JStr] }

\* Bodies of POST /purchase-request (estimated_cost is a whole number here, so
\* float() and int() agree on it)
ManualRequests ==
    { [item_name |-> "beans", quantity_needed |-> JInt(1000), estimated_cost |-> JInt(100000)],
      [item_name |-> "milk", quantity_needed |-> JInt(0), estimated_cost |-> JInt(600000)],
      [item_name |-> "beans", quantity_needed |-> JStr, estimated_cost |-> JInt(100000)],
      [item_name |-> "beans", quantity_needed |-> JInt(1000)] }

RECURSIVE SeqsUpTo(_, _)
SeqsUpTo(S, n) ==
    IF n = 0 THEN {<< >>}
    ELSE LET shorter == SeqsUpTo(S, n - 1)
         IN  shorter \cup { Append(s, x) : s \in {t \in shorter : Len(t) = n - 1}, x \in S }

\* Production dates, in calendar order
Dates == <<"2025-12-12", "2025-12-13">>
DateRank(d) == CHOOSE i \in DOMAIN Dates : Dates[i] = d

\* Rows of weekly_orders as GET /orders-weekly reports them ("latte" has no recipe:
\* recipe names are matched exactly)
OrderSet ==
    { [date |-> Dates[1], product |-> "capucino", quantity |-> 600],
      [date |-> Dates[1], product |-> "Latte", quantity |-> 5],
      [date |-> Dates[1], product |-> "latte", quantity |-> 3],
      [date |-> Dates[2], product |-> "Latte", quantity |-> 600],
      [date |-> Dates[2], product |-> "capucino", quantity |-> 5] }

\* aggregate_orders groups by (order_date, product) and the feed is ordered by date
OrdersFeeds ==
    { f \in SeqsUpTo(OrderSet, MaxOrders) :
        \A i, j \in DOMAIN f :
            i < j => /\ DateRank(f[i].date) <= DateRank(f[j].date)
                     /\ <<f[i].date, f[i].product>> # <<f[j].date, f[j].product>> }

\* Feeds with orders whose summed quantity is zero or negative (add_order
\* takes any integer, aggregate_orders sums them)
SignedFeeds ==
    { << [date |-> Dates[1], product |-> "capucino", quantity |-> 0] >>,
      << [date |-> Dates[1], product |-> "capucino", quantity |-> -5] >>,
      << [date |-> Dates[1], product |-> "capucino", quantity |-> -5],
         [date |-> Dates[1], product |-> "Latte", quantity |-> 5] >> }

\* A week's feed with a large order for the first date and a small one for
\* the second
PlannedFeeds ==
    { << [date |-> Dates[1], product |-> "capucino", quantity |-> 600],
         [date |-> Dates[2], product |-> "capucino", quantity |-> 5] >> }

\* Ledger states the kitchen can meet: the seed, and stock run down by consumption
KitchenStocks ==
    { SEED_INVENTORY, [beans |-> 30, milk |-> 2000] }

\* Remaining quantities around every boundary of the trigger functions
ProbeRemaining ==
    LET around(n) == { r \in (n - MaxDelta) .. (n + MaxDelta) : r >= 0 }
    IN  UNION { around(0) \cup around(SEED_INVENTORY[i] \div LowStockDivisor)
                \cup around(SEED_INVENTORY[i] \div 2) \cup around(SEED_INVENTORY[i])
                : i \in DOMAIN SEED_INVENTORY }

ConsumptionBatches == SeqsUpTo(ConsumptionRows, MaxRows)

\* Rows that take the beans to their threshold and rows that consume nothing
ThresholdRows ==
    { [item |-> "beans", quantity |-> JInt(9000)],
      [item |-> "beans", quantity |-> JInt(0)] }

ThresholdBatches == SeqsUpTo(ThresholdRows, MaxRows)

\* Requests in flight at the same time (the development server is threaded)
Procs == {1, 2}

\* Batches of the concurrent calls: beans to the threshold, beans above it,
\* two items in one call, no row at all, a second row without quantity
ConcurrentBatches ==
    { << >>,
      << [item |-> "beans", quantity |-> JInt(9000)] >>,
      << [item |-> "beans", quantity |-> JInt(600)] >>,
      << [item |-> "milk", quantity |-> JInt(500)],
         [item |-> "beans", quantity |-> JInt(9000)] >>,
      << [item |-> "beans", quantity |-> JInt(600)],
         [item |-> "milk"] >> }

\* A call of apply_consumption that has not started:
\*   pc       where the call stands: idle, select, update, check, post, commit,
\*            done, failed
\*   i        the row of consumption the loop is at
\*   in_tx    the connection has an open transaction (and the write lock)
\*   current  what the SELECT of row i returned
\*   inv      the inventory table as the open transaction sees it
\*   pending  procurement_log rows inserted and not yet committed
\*   trace    one entry per UPDATE made
NewThread ==
    [pc |-> "idle", consumption |-> << >>, i |-> 0, in_tx |-> FALSE,
     committed |-> FALSE, current |-> 0, new_qty |-> 0,
     inv |-> init_db.inventory, pending |-> << >>, trace |-> << >>]

NoResponse == [op |-> "none"]
NoProbe == [item |-> "none", remaining |-> 0, trigger |-> FALSE, quantity |-> 0]

(***************************************************************************)
(* Initial state: every service has run its init_db                        *)
(***************************************************************************)
Init ==
    /\ inventory = init_db.inventory
    /\ procurement_log = init_db.procurement_log
    /\ purchase_requests = << >>
    /\ batch_consumption = << >>
    /\ clock = 0
    /\ response = NoResponse
    /\ probe = NoProbe
    /\ threads = [p \in Procs |-> NewThread]
    /\ db_lock = 0

(***************************************************************************)
(* Actions                                                                 *)
(***************************************************************************)
\* Time passes between requests
Tick ==
    /\ clock < MaxClock
    /\ clock' = clock + 1
    /\ UNCHANGED <<inventory, procurement_log, purchase_requests, batch_consumption,
                   response, probe, threads, db_lock>>

\* apply_consumption(consumption), from get_db() to conn.close()
ApplyConsumptionWith(consumption) ==
    \E out \in apply_consumption(inventory, procurement_log, purchase_requests,
                                 consumption, clock) :
        /\ db_lock = 0
        /\ Len(out.purchase_requests) <= MaxLog
        /\ Len(out.procurement_log) <= MaxLog
        /\ inventory' = out.inventory
        /\ procurement_log' = out.procurement_log
        /\ purchase_requests' = out.purchase_requests
        /\ response' = [op |-> "apply_consumption",
                        consumption |-> consumption,
                        raised |-> out.raised,
                        calls |-> out.calls,
                        trace |-> out.trace]
        /\ UNCHANGED <<batch_consumption, clock, probe, threads, db_lock>>

\* apply_consumption on the rows a /batch response carries
ApplyConsumption ==
    \E consumption \in ConsumptionBatches : ApplyConsumptionWith(consumption)

\* apply_consumption on rows that keep an item at or below its threshold
ApplyConsumptionAtThreshold ==
    \E consumption \in ThresholdBatches : ApplyConsumptionWith(consumption)

\* POST /purchase-request
ManualPurchaseRequest ==
    \E data \in ManualRequests, net \in Net :
        LET out == manual_purchase_request(inventory, procurement_log, purchase_requests,
                                           data, net, clock)
        IN  /\ db_lock = 0
            /\ Len(out.purchase_requests) <= MaxLog
            /\ Len(out.procurement_log) <= MaxLog
            /\ procurement_log' = out.procurement_log
            /\ purchase_requests' = out.purchase_requests
            /\ response' = [op |-> "manual_purchase_request",
                            data |-> data,
                            http_status |-> out.http_status,
                            calls |-> out.calls,
                            status |-> out.status,
                            finance_http_status |-> out.finance_http_status]
            /\ UNCHANGED <<inventory, batch_consumption, clock, probe, threads, db_lock>>

\* GET /stock
GetStock ==
    /\ response' = [op |-> "get_stock", stock |-> get_stock(inventory)]
    /\ UNCHANGED <<inventory, procurement_log, purchase_requests, batch_consumption,
                   clock, probe, threads, db_lock>>

\* POST /start-production with the given body date, while the two upstream
\* GETs behave as orders_resp and stock_resp say
StartProductionWith(production_date, orders_resp, stock_resp) ==
    LET out == start_production_route(batch_consumption, production_date,
                                      orders_resp, stock_resp, clock)
    IN  /\ Len(out.batch) <= MaxBatch
        /\ batch_consumption' = out.batch
        /\ response' = [op |-> "start_production",
                        date |-> production_date,
                        orders_ok |-> orders_resp.ok,
                        orders |-> orders_resp.body,
                        stock_ok |-> stock_resp.ok,
                        snapshot |-> stock_resp.body,
                        store_failed_at |-> 0,
                        result |-> [out EXCEPT !.batch = << >>]]
        /\ UNCHANGED <<inventory, procurement_log, purchase_requests, clock, probe, threads, db_lock>>

\* POST /start-production: the body may lack its date; the orders feed and the
\* stock snapshot are fetched over HTTP and either fetch can fail
StartProduction ==
    LET stock_up == [ok |-> TRUE, body |-> get_stock(inventory)]
        failed == [ok |-> FALSE, body |-> << >>]
        stock_failed == [ok |-> FALSE, body |-> {}]
    IN  \/ StartProductionWith("", failed, stock_failed)
        \/ \E production_date \in {Dates[i] : i \in DOMAIN Dates} :
              \/ StartProductionWith(production_date, failed, stock_up)
              \/ \E feed \in OrdersFeeds, stock_resp \in {stock_up, stock_failed} :
                    StartProductionWith(production_date, [ok |-> TRUE, body |-> feed],
                                        stock_resp)

\* POST /start-production while the feed carries zero or negative quantities
StartProductionSigned ==
    \E production_date \in {Dates[i] : i \in DOMAIN Dates}, feed \in SignedFeeds :
        StartProductionWith(production_date, [ok |-> TRUE, body |-> feed],
                            [ok |-> TRUE, body |-> get_stock(inventory)])

\* POST /start-production for a date of the planned week
StartProductionPlanned ==
    \E production_date \in {Dates[i] : i \in DOMAIN Dates}, feed \in PlannedFeeds :
        StartProductionWith(production_date, [ok |-> TRUE, body |-> feed],
                            [ok |-> TRUE, body |-> get_stock(inventory)])

\* POST /consume?date=
ConsumeFromKitchen ==
    \E date \in {Dates[i] : i \in DOMAIN Dates} \cup {""}, batch_ok \in BOOLEAN :
        \E out \in consume_from_kitchen(inventory, procurement_log, purchase_requests,
                                        batch_consumption, date, batch_ok, clock) :
            /\ db_lock = 0
            /\ Len(out.purchase_requests) <= MaxLog
            /\ Len(out.procurement_log) <= MaxLog
            /\ inventory' = out.inventory
            /\ procurement_log' = out.procurement_log
            /\ purchase_requests' = out.purchase_requests
            /\ response' = [op |-> "consume_from_kitchen",
                            date |-> date,
                            batch_ok |-> batch_ok,
                            http_status |-> out.http_status,
                            consumption |-> out.consumption,
                            raised |-> out.raised,
                            calls |-> out.calls,
                            trace |-> out.trace]
            /\ UNCHANGED <<batch_consumption, clock, probe, threads, db_lock>>

\* POST /start-production with orders and stock fetched, stock sufficient, and
\* the store failing at one INSERT of the insert loop
StartProductionStoreFailure ==
    \E production_date \in {Dates[i] : i \in DOMAIN Dates}, feed \in OrdersFeeds,
       fail_at \in 1 .. Cardinality(DOMAIN SEED_INVENTORY) :
        LET orders_resp == [ok |-> TRUE, body |-> feed]
            stock_resp == [ok |-> TRUE, body |-> get_stock(inventory)]
            run == start_production_route(batch_consumption, production_date,
                                          orders_resp, stock_resp, clock)
            out == start_production_store_failure(batch_consumption, production_date,
                                                  orders_resp, stock_resp, clock, fail_at)
        IN  /\ run.status = "success"
            /\ fail_at <= Len(run.required)
            /\ batch_consumption' = out.batch
            /\ response' = [op |-> "start_production",
                            date |-> production_date,
                            orders_ok |-> TRUE,
                            orders |-> feed,
                            stock_ok |-> TRUE,
                            snapshot |-> stock_resp.body,
                            store_failed_at |-> fail_at,
                            result |-> [out EXCEPT !.batch = << >>]]
            /\ UNCHANGED <<inventory, procurement_log, purchase_requests, clock, probe, threads, db_lock>>

\* kitchen_app.py starting up: init_db(), then start_production(BOOT_DATE)
BootProduction ==
    LET stock_up == [ok |-> TRUE, body |-> get_stock(inventory)]
        failed == [ok |-> FALSE, body |-> << >>]
        stock_failed == [ok |-> FALSE, body |-> {}]
        boot(orders_resp, stock_resp) ==
            LET out == start_production_boot(batch_consumption, BOOT_DATE,
                                             orders_resp, stock_resp, clock)
            IN  /\ Len(out.batch) <= MaxBatch
                /\ batch_consumption' = out.batch
                /\ response' = [op |-> "boot_production",
                                date |-> BOOT_DATE,
                                orders_ok |-> orders_resp.ok,
                                orders |-> orders_resp.body,
                                stock_ok |-> stock_resp.ok,
                                snapshot |-> stock_resp.body,
                                store_failed_at |-> 0,
                                result |-> [out EXCEPT !.batch = << >>]]
                /\ UNCHANGED <<inventory, procurement_log, purchase_requests, clock, probe, threads, db_lock>>
    IN  \/ boot(failed, stock_up)
        \/ \E feed \in OrdersFeeds, stock_resp \in {stock_up, stock_failed} :
              boot([ok |-> TRUE, body |-> feed], stock_resp)

\* GET /batch?date=
GetBatch ==
    \E production_date \in {Dates[i] : i \in DOMAIN Dates} :
        /\ response' = [op |-> "get_batch", date |-> production_date,
                        consumption |-> get_batch(batch_consumption, production_date)]
        /\ UNCHANGED <<inventory, procurement_log, purchase_requests, batch_consumption,
                       clock, probe, threads, db_lock>>

\* The pure trigger functions applied to one (item, remaining)
Evaluate ==
    \E item \in DOMAIN SEED_INVENTORY \cup {"sugar"}, remaining \in ProbeRemaining :
        /\ probe' = [item |-> item, remaining |-> remaining,
                     trigger |-> should_trigger_purchase(item, remaining),
                     quantity |-> calculate_replenishment_quantity(item, remaining)]
        /\ UNCHANGED <<inventory, procurement_log, purchase_requests, batch_consumption,
                       clock, response, threads, db_lock>>

(***************************************************************************)
(* apply_consumption statement by statement, for calls that overlap         *)
(***************************************************************************)
\* The inventory table as the call's connection reads it
ThreadView(t) == IF t.in_tx THEN t.inv ELSE inventory

\* The loop moves to its next row, or leaves for conn.commit()
NextRow(t) ==
    IF t.i < Len(t.consumption)
    THEN [t EXCEPT !.pc = "select", !.i = @ + 1]
    ELSE [t EXCEPT !.pc = "commit"]

LastOf(t) == t.trace[Len(t.trace)]

\* A request reaches apply_consumption(consumption): get_db()
CallBegin ==
    \E p \in Procs, consumption \in ConcurrentBatches :
        /\ threads[p].pc = "idle"
        /\ threads' = [threads EXCEPT ![p] =
                          [NewThread EXCEPT !.pc = IF consumption = << >> THEN "commit"
                                                   ELSE "select",
                                            !.consumption = consumption,
                                            !.i = 1]]
        /\ UNCHANGED <<inventory, procurement_log, purchase_requests, batch_consumption,
                       clock, response, probe, db_lock>>

\* row["item"], int(row["quantity"]), SELECT quantity ... fetchone(); a row that
\* cannot be read raises out of the route: what the connection wrote is never
\* committed, and its write lock goes when the connection object is collected,
\* at once or (the traceback kept by the debug server) not at all
CallSelect ==
    \E p \in Procs :
        LET t == threads[p]
            row == t.consumption[t.i]
            view == ThreadView(t)
        IN  /\ t.pc = "select"
            /\ IF ~ ("item" \in DOMAIN row) \/ ~ ("quantity" \in DOMAIN row)
                  \/ ~ py_int(row.quantity).ok
               THEN /\ threads' = [threads EXCEPT ![p] =
                                      [t EXCEPT !.pc = "failed", !.in_tx = FALSE,
                                                !.pending = << >>]]
                    /\ \E released \in BOOLEAN :
                          db_lock' = IF db_lock = p /\ released THEN 0 ELSE db_lock
               ELSE /\ threads' = [threads EXCEPT ![p] =
                                      [t EXCEPT !.pc = "update",
                                                !.current = IF row.item \in DOMAIN view
                                                            THEN view[row.item] ELSE 0]]
                    /\ db_lock' = db_lock
            /\ UNCHANGED <<inventory, procurement_log, purchase_requests, batch_consumption,
                           clock, response, probe>>

\* (INSERT OR IGNORE of an unknown item and) UPDATE inventory SET quantity =
\* max(current - qty, 0): takes the write lock, writes into the open
\* transaction, then evaluates the trigger
CallUpdate ==
    \E p \in Procs :
        LET t == threads[p]
            row == t.consumption[t.i]
            item == row.item
            qty == py_int(row.quantity).v
            base == ThreadView(t)
            new_qty == new_quantity(t.current, qty)
            inv2 == [i \in DOMAIN base \cup {item} |-> IF i = item THEN new_qty ELSE base[i]]
            fired == should_trigger_purchase(item, new_qty)
            t2 == [t EXCEPT !.in_tx = TRUE, !.inv = inv2, !.new_qty = new_qty,
                            !.trace = Append(@, [item |-> item, quantity |-> qty,
                                                 current |-> t.current,
                                                 visible |-> IF item \in DOMAIN base
                                                             THEN base[item] ELSE 0,
                                                 new_qty |-> new_qty,
                                                 fired |-> fired,
                                                 saw_open |-> FALSE,
                                                 dispatched |-> FALSE,
                                                 status |-> "none"])]
        IN  /\ t.pc = "update"
            /\ can_write(db_lock, p)
            /\ db_lock' = p
            /\ threads' = [threads EXCEPT ![p] =
                              IF fired THEN [t2 EXCEPT !.pc = "check"] ELSE NextRow(t2)]
            /\ inventory' = visible_after_update(inventory, inv2)
            /\ UNCHANGED <<procurement_log, purchase_requests, batch_consumption,
                           clock, response, probe>>

\* The write lock stayed with another connection for the whole busy timeout:
\* sqlite3.OperationalError, the call ends having written nothing
CallLocked ==
    \E p \in Procs :
        /\ threads[p].pc = "update"
        /\ ~ can_write(db_lock, p)
        /\ threads' = [threads EXCEPT ![p] = [@ EXCEPT !.pc = "failed"]]
        /\ UNCHANGED <<inventory, procurement_log, purchase_requests, batch_consumption,
                       clock, response, probe, db_lock>>

\* has_open_procurement(cursor, item) on the call's own cursor: committed rows
\* and the rows of its open transaction
CallCheck ==
    \E p \in Procs :
        LET t == threads[p]
            item == LastOf(t).item
            open == has_open_procurement(procurement_log \o t.pending, item)
        IN  /\ t.pc = "check"
            /\ threads' = [threads EXCEPT ![p] =
                              IF open
                              THEN NextRow([t EXCEPT !.trace[Len(t.trace)].saw_open = TRUE])
                              ELSE [t EXCEPT !.pc = "post"]]
            /\ UNCHANGED <<inventory, procurement_log, purchase_requests, batch_consumption,
                           clock, response, probe, db_lock>>

\* requests.post to finance inside try/except, then log_procurement on the
\* call's cursor
CallPost ==
    \E p \in Procs, net \in Net :
        LET t == threads[p]
            payload == auto_payload(LastOf(t).item, t.new_qty, clock)
            r == post_purchase_request(purchase_requests, payload, net)
            status == status_after_post(r.http)
        IN  /\ t.pc = "post"
            /\ purchase_requests' = r.fin
            /\ threads' = [threads EXCEPT ![p] =
                              NextRow([t EXCEPT !.pending = log_procurement(@, payload, status, clock),
                                                !.trace[Len(t.trace)].dispatched = TRUE,
                                                !.trace[Len(t.trace)].status = status])]
            /\ UNCHANGED <<inventory, procurement_log, batch_consumption,
                           clock, response, probe, db_lock>>

\* conn.commit(); conn.close(): the transaction's rows become the committed
\* ones and the write lock is released
CallCommit ==
    \E p \in Procs :
        LET t == threads[p]
        IN  /\ t.pc = "commit"
            /\ threads' = [threads EXCEPT ![p] =
                              [t EXCEPT !.pc = "done", !.committed = t.in_tx,
                                        !.in_tx = FALSE, !.pending = << >>]]
            /\ inventory' = IF t.in_tx THEN t.inv ELSE inventory
            /\ procurement_log' = procurement_log \o t.pending
            /\ db_lock' = IF db_lock = p THEN 0 ELSE db_lock
            /\ UNCHANGED <<purchase_requests, batch_consumption, clock, response, probe>>

(***************************************************************************)
(* Specifications                                                          *)
(***************************************************************************)
\* Consumption calls one after the other, within one clock second
NextConsumption == ApplyConsumption \/ GetStock

SpecConsumption == Init /\ [][NextConsumption]_vars

\* The inventory service handling requests one after the other, within one
\* clock second
NextInventory == ApplyConsumption \/ ManualPurchaseRequest \/ GetStock

SpecInventory == Init /\ [][NextInventory]_vars

\* Consumption calls that meet the rows earlier dispatches of the item left
NextRetry == ApplyConsumptionAtThreshold \/ GetStock

SpecRetry == Init /\ [][NextRetry]_vars

\* Manual purchase requests one after the other, and readers of the ledger
NextManual == ManualPurchaseRequest \/ GetStock

SpecManual == Init /\ [][NextManual]_vars

\* A manual purchase request or none, then the consumption calls that meet the
\* row it left in the log
NextProcurement ==
    \/ /\ response.op = "none"
       /\ ManualPurchaseRequest
    \/ ApplyConsumption

SpecProcurement == Init /\ [][NextProcurement]_vars

\* The kitchen service against a ledger that consumption has run down or not
InitKitchen ==
    /\ inventory \in KitchenStocks
    /\ procurement_log = << >>
    /\ purchase_requests = << >>
    /\ batch_consumption = << >>
    /\ clock = 0
    /\ response = NoResponse
    /\ probe = NoProbe
    /\ threads = [p \in Procs |-> NewThread]
    /\ db_lock = 0

NextKitchen == StartProduction \/ GetBatch

SpecKitchen == InitKitchen /\ [][NextKitchen]_vars

\* Both kitchen programs over the same indago_kitchen.db
NextKitchens == StartProduction \/ BootProduction \/ GetBatch

SpecKitchens == InitKitchen /\ [][NextKitchens]_vars

\* The kitchen service with a store that can fail during the insert loop
NextKitchenStore == StartProduction \/ StartProductionStoreFailure \/ GetBatch

SpecKitchenStore == InitKitchen /\ [][NextKitchenStore]_vars

\* The kitchen service with a feed that can carry zero or negative quantities
NextKitchenSigned == StartProduction \/ StartProductionSigned \/ GetBatch

SpecKitchenSigned == InitKitchen /\ [][NextKitchenSigned]_vars

\* The kitchen committing production and the inventory service pulling it
NextPipeline == StartProductionPlanned \/ ConsumeFromKitchen

SpecPipeline == Init /\ [][NextPipeline]_vars

\* Two consumption calls in flight at once, and readers of GET /stock
NextConcurrent ==
    \/ CallBegin
    \/ CallSelect
    \/ CallUpdate
    \/ CallLocked
    \/ CallCheck
    \/ CallPost
    \/ CallCommit
    \/ GetStock

SpecConcurrent == Init /\ [][NextConcurrent]_vars

\* The trigger functions on their own
SpecTrigger == Init /\ [][Evaluate]_vars

\* Every writer of the two logs, each followed from the start on its own: the
\* one-call consumption endpoint, the manual request endpoint, the kitchen's
\* production runs, and overlapping consumption calls; and a reader of the
\* ledger after any of them
KitchenOps == {"start_production", "boot_production", "get_batch"}

NoCallInFlight == threads = [p \in Procs |-> NewThread]

NextLogs ==
    \/ /\ response.op \in {"none", "apply_consumption"}
       /\ NoCallInFlight
       /\ ApplyConsumption
    \/ /\ response.op \in {"none", "manual_purchase_request"}
       /\ NoCallInFlight
       /\ ManualPurchaseRequest
    \/ /\ response.op \in KitchenOps \cup {"none"}
       /\ NoCallInFlight
       /\ \/ StartProduction
          \/ StartProductionStoreFailure
          \/ BootProduction
          \/ GetBatch
    \/ /\ response.op = "none"
       /\ \/ CallBegin
          \/ CallSelect
          \/ CallUpdate
          \/ CallLocked
          \/ CallCheck
          \/ CallPost
          \/ CallCommit
    \/ /\ NoCallInFlight
       /\ GetStock

SpecLogs == Init /\ [][NextLogs]_vars

\* The whole system
Next ==
    \/ ApplyConsumption
    \/ ApplyConsumptionAtThreshold
    \/ ManualPurchaseRequest
    \/ GetStock
    \/ StartProduction
    \/ StartProductionStoreFailure
    \/ StartProductionSigned
    \/ StartProductionPlanned
    \/ ConsumeFromKitchen
    \/ BootProduction
    \/ GetBatch
    \/ CallBegin
    \/ CallSelect
    \/ CallUpdate
    \/ CallLocked
    \/ CallCheck
    \/ CallPost
    \/ CallCommit
    \/ Tick

Spec == Init /\ [][Next]_vars

(***************************************************************************)
(* Helpers of the properties                                               *)
(***************************************************************************)
IsConsumption == response.op = "apply_consumption"
IsProduction == response.op = "start_production"

OpenStatuses == {"pending", "submitted"}

\* Rows of a consumption batch that the loop can read: item and integer quantity
WellFormed(row) ==
    /\ "item" \in DOMAIN row
    /\ "quantity" \in DOMAIN row
    /\ row.quantity.t = "int"

\* The trace entries of the last consumption call that dispatched (guard passed)
Dispatched(e) == e.fired /\ e.open = {}
\* ... and those whose dispatch met an open request
Blocked(e) == e.fired /\ e.open # {}

\* The last entry of the trace for an item, 0 if none
LastEntryOf(trace, item) ==
    IF \E k \in DOMAIN trace : trace[k].item = item
    THEN CHOOSE k \in DOMAIN trace :
            /\ trace[k].item = item
            /\ \A m \in DOMAIN trace : trace[m].item = item => m <= k
    ELSE 0

\* Every item the committed call touched holds the quantity its last row wrote
LedgerCommitted ==
    \A k \in DOMAIN response.trace :
        LET e == response.trace[k]
        IN  /\ e.item \in DOMAIN inventory
            /\ inventory[e.item] = response.trace[LastEntryOf(response.trace, e.item)].new_qty

(***************************************************************************)
(* C1: after any sequence of apply_consumption calls every on-hand         *)
(* quantity of the Stock Ledger is >= 0, and every processed row writes    *)
(* max(old - consumed, 0) for its item: the difference when the stock      *)
(* covers the consumption, 0 when it does not; a row reads what the        *)
(* previous row of the same call wrote for its item, and the committed     *)
(* ledger holds the last value written.                                    *)
(***************************************************************************)
C1_ConsumptionNeverNegative ==
    /\ \A i \in DOMAIN inventory : inventory[i] >= 0
    /\ IsConsumption =>
        /\ \A k \in DOMAIN response.trace :
            LET e == response.trace[k]
            IN  /\ e.new_qty >= 0
                /\ e.current >= e.quantity => e.new_qty = e.current - e.quantity
                /\ e.current < e.quantity => e.new_qty = 0
                /\ \A m \in DOMAIN response.trace :
                    (m < k /\ response.trace[m].item = e.item
                       /\ \A n \in (m + 1) .. (k - 1) : response.trace[n].item # e.item)
                    => e.current = response.trace[m].new_qty
        /\ ~ response.raised => LedgerCommitted

\* An over-consumption was clamped: stock 1000, consumed 9000, committed as 0
C1_Witness ==
    /\ IsConsumption
    /\ ~ response.raised
    /\ \E k \in DOMAIN response.trace :
        LET e == response.trace[k]
        IN  /\ e.current > 0
            /\ e.quantity > e.current
            /\ e.new_qty = 0
            /\ inventory[e.item] = 0

(***************************************************************************)
(* C2: open-request invariant: in every reachable state the Procurement    *)
(* Log holds at most one row with status pending or submitted per item.    *)
(* (Violated: POST /purchase-request never looks for an open request.)     *)
(***************************************************************************)
C2_AtMostOneOpenPerItem ==
    \A i, j \in DOMAIN procurement_log :
        ( /\ procurement_log[i].item_name = procurement_log[j].item_name
          /\ procurement_log[i].status \in OpenStatuses
          /\ procurement_log[j].status \in OpenStatuses )
        => i = j

(***************************************************************************)
(* C3: dispatch deduplication: a dispatch for an item for which the log    *)
(* (as the connection sees it, uncommitted rows of the same call included) *)
(* already holds a pending or submitted row makes no Approval call and     *)
(* inserts no row.                                                         *)
(***************************************************************************)
C3_DispatchDeduplicated ==
    IsConsumption =>
        \A k \in DOMAIN response.trace :
            LET e == response.trace[k]
            IN  Blocked(e) => /\ e.calls_after = e.calls_before
                              /\ e.logged = << >>
                              /\ e.log_after = e.log_before

\* Same item twice in one batch: the first row's dispatch was submitted, the
\* second row's dispatch was a no-op, and the committed log holds one row
C3_Witness ==
    /\ IsConsumption
    /\ ~ response.raised
    /\ Len(response.trace) = 2
    /\ response.trace[1].item = response.trace[2].item
    /\ Dispatched(response.trace[1])
    /\ response.trace[1].logged # << >>
    /\ response.trace[1].logged[1].status = "submitted"
    /\ Blocked(response.trace[2])
    /\ response.trace[2].open = {response.trace[1].logged[1].order_id}
    /\ Len(procurement_log) = 1

(***************************************************************************)
(* C4: every dispatch that passes the open-request guard makes the         *)
(* Approval call and appends exactly one Procurement Log row for its item, *)
(* with status submitted if the call returned a success response and       *)
(* failed on a transport error, timeout or non-success response; the row   *)
(* of a failed attempt is committed like any other.                        *)
(***************************************************************************)
C4_OneRowPerDispatch ==
    IsConsumption =>
        \A k \in DOMAIN response.trace :
            LET e == response.trace[k]
            IN  Dispatched(e) =>
                    /\ e.calls_after = e.calls_before + 1
                    /\ e.log_after = e.log_before + 1
                    /\ Len(e.logged) = 1
                    /\ e.logged[1].item_name = e.item
                    /\ e.logged[1].current_stock = e.new_qty
                    /\ e.http \in 200 .. 299 => e.logged[1].status = "submitted"
                    /\ e.http \notin 200 .. 299 => e.logged[1].status = "failed"
                    /\ ~ response.raised => /\ e.log_after <= Len(procurement_log)
                                            /\ procurement_log[e.log_after] = e.logged[1]

\* A dispatch answered 500 by finance was logged as failed and committed
C4_Witness ==
    /\ IsConsumption
    /\ ~ response.raised
    /\ \E k \in DOMAIN response.trace :
        LET e == response.trace[k]
        IN  /\ Dispatched(e)
            /\ e.http = 500
            /\ procurement_log[e.log_after].status = "failed"

(***************************************************************************)
(* C5: a failure of the Approval call in an auto-triggered dispatch is     *)
(* never raised to the consumption caller: a call whose rows are all       *)
(* well-formed processes every row, commits every stock update and         *)
(* returns normally, whatever the Approval calls did.                      *)
(***************************************************************************)
C5_ApprovalFailureSwallowed ==
    (IsConsumption /\ \A k \in DOMAIN response.consumption : WellFormed(response.consumption[k]))
    => /\ ~ response.raised
       /\ Len(response.trace) = Len(response.consumption)
       /\ \A k \in DOMAIN response.trace :
            /\ response.trace[k].item = response.consumption[k].item
            /\ response.trace[k].quantity = response.consumption[k].quantity.v
       /\ LedgerCommitted

\* The Approval call of the first row failed, the second row was still
\* processed, and the call committed
C5_Witness ==
    /\ IsConsumption
    /\ ~ response.raised
    /\ Len(response.trace) = 2
    /\ Dispatched(response.trace[1])
    /\ response.trace[1].http \notin 200 .. 299
    /\ response.trace[2].item # response.trace[1].item
    /\ response.trace[2].item \in DOMAIN inventory
    /\ inventory[response.trace[1].item] = response.trace[1].new_qty

(***************************************************************************)
(* C6: the Replenishment Trigger fires for (item, remaining) if and only   *)
(* if the item has a seeded baseline and remaining <= baseline x 0.1, the  *)
(* boundary included; an item without baseline never triggers.             *)
(***************************************************************************)
C6_TriggerIffAtOrBelowThreshold ==
    probe.item # "none" =>
        /\ probe.trigger <=> ( /\ probe.item \in DOMAIN SEED_INVENTORY
                               /\ 10 * probe.remaining <= SEED_INVENTORY[probe.item] )
        /\ probe.item \notin DOMAIN SEED_INVENTORY => ~ probe.trigger

\* The boundary itself: remaining = baseline x 0.1 fires
C6_Witness ==
    /\ probe.item \in DOMAIN SEED_INVENTORY
    /\ 10 * probe.remaining = SEED_INVENTORY[probe.item]
    /\ probe.trigger

(***************************************************************************)
(* C7: the requested replenishment quantity is the larger of               *)
(* baseline - remaining and floor(baseline x 0.5) (baseline 0 for an item  *)
(* without one); hence it is >= floor(baseline x 0.5) and remaining +      *)
(* requested >= baseline; baseline 10000 with remaining 500 gives 9500.    *)
(***************************************************************************)
C7_ReplenishmentQuantity ==
    probe.item # "none" =>
        LET baseline == IF probe.item \in DOMAIN SEED_INVENTORY
                        THEN SEED_INVENTORY[probe.item] ELSE 0
            to_baseline == baseline - probe.remaining
            q == probe.quantity
        IN  /\ q >= to_baseline
            /\ 2 * q >= baseline - 1
            /\ q = to_baseline \/ (2 * q <= baseline /\ baseline < 2 * q + 2)
            /\ probe.remaining + q >= baseline
            /\ (probe.item = "beans" /\ probe.remaining = 500) => q = 9500

\* The floor binds: remaining above half the baseline, half the baseline requested
C7_Witness ==
    /\ probe.item = "beans"
    /\ probe.remaining > 5000
    /\ probe.quantity = 5000

(***************************************************************************)
(* Requirements of a production run, from its inputs                       *)
(***************************************************************************)
RECURSIVE SumOver(_, _)
SumOver(S, f) ==
    IF S = {} THEN 0
    ELSE LET x == CHOOSE y \in S : TRUE
         IN  f[x] + SumOver(S \ {x}, f)

\* Orders of the feed that count for the run: same date, product with a recipe
PlannedOrders ==
    { i \in DOMAIN response.orders :
        /\ response.orders[i].date = response.date
        /\ response.orders[i].product \in DOMAIN RECIPES }

\* Quantity of an item that one unit of a product takes
PerUnit(product, item) ==
    LET recipe == RECIPES[product]
        lines == { k \in DOMAIN recipe : recipe[k].item = item }
    IN  SumOver(lines, [k \in lines |-> recipe[k].qty_per_unit])

RequiredItems ==
    { RECIPES[response.orders[i].product][k].item :
        i \in PlannedOrders, k \in 1 .. 2 }

Needed(item) ==
    SumOver(PlannedOrders,
            [i \in PlannedOrders |->
                response.orders[i].quantity * PerUnit(response.orders[i].product, item)])

UnitOf(item) == IF item = "beans" THEN "g" ELSE "ml"

Available(item) ==
    IF \E s \in response.snapshot : s.item = item
    THEN (CHOOSE s \in response.snapshot : s.item = item).quantity
    ELSE 0

\* The run got its orders and its stock snapshot and has something to produce
GateReached ==
    /\ IsProduction
    /\ response.date # ""
    /\ response.orders_ok
    /\ response.stock_ok
    /\ RequiredItems # {}

ShortItems == { item \in RequiredItems : Available(item) < Needed(item) }

(***************************************************************************)
(* C8: feasibility veto: if at least one required item has less in the     *)
(* stock snapshot (0 if absent) than required, the run writes no           *)
(* BatchConsumptionRecord at all and the shortfall list holds exactly the  *)
(* items with available < required, each once, with its required and      *)
(* available values.                                                       *)
(***************************************************************************)
VetoReported ==
    /\ response.result.status = "insufficient"
    /\ response.result.http_status = 400
    /\ response.result.inserted_rows = 0
    /\ Len(response.result.details) = Cardinality(ShortItems)
    /\ { response.result.details[k] : k \in DOMAIN response.result.details }
         = { [item |-> item, required |-> Needed(item),
              available |-> Available(item), unit |-> UnitOf(item)] : item \in ShortItems }

C8_FeasibilityVeto ==
    [][ (GateReached' /\ ShortItems' # {})
        => (batch_consumption' = batch_consumption /\ VetoReported') ]_vars

\* Vetoed with one of the two required items short and the other sufficient
C8_Witness ==
    /\ GateReached
    /\ Cardinality(RequiredItems) = 2
    /\ Cardinality(ShortItems) = 1
    /\ response.result.status = "insufficient"
    /\ batch_consumption = << >>

(***************************************************************************)
(* C9: feasibility pass: if every required item has available >= required  *)
(* the run appends exactly one BatchConsumptionRecord per distinct         *)
(* required item, with the run's date and the item's aggregated quantity   *)
(* and unit, and returns success with inserted count = number of required  *)
(* items.                                                                  *)
(***************************************************************************)
CommitReported ==
    /\ response.result.status = "success"
    /\ response.result.http_status = 200
    /\ response.result.inserted_rows = Cardinality(RequiredItems)

\* The table holds, after its first n rows, one row per required item
AppendedOnePerItem(n) ==
    /\ Len(batch_consumption) = n + Cardinality(RequiredItems)
    /\ \A item \in RequiredItems :
        \E k \in (n + 1) .. Len(batch_consumption) :
            /\ batch_consumption[k].production_date = response.date
            /\ batch_consumption[k].item = item
            /\ batch_consumption[k].quantity = Needed(item)
            /\ batch_consumption[k].unit = UnitOf(item)

C9_FeasibilityPass ==
    [][ (GateReached' /\ ShortItems' = {})
        => /\ CommitReported'
           /\ \E n \in 0 .. MaxBatch :
                /\ n = Len(batch_consumption)
                /\ SubSeq(batch_consumption', 1, n) = batch_consumption
                /\ AppendedOnePerItem(n)' ]_vars

\* A run for two orders of one date committed its two rows
C9_Witness ==
    /\ GateReached
    /\ ShortItems = {}
    /\ Cardinality(PlannedOrders) = 2
    /\ response.result.status = "success"
    /\ response.result.inserted_rows = 2
    /\ Len(batch_consumption) >= 2
    /\ batch_consumption[Len(batch_consumption)].production_date = response.date

(***************************************************************************)
(* C10: requirement aggregation: for a run on date D the required quantity *)
(* of each raw item is the sum, over the orders whose date equals D and    *)
(* whose product has a recipe, of order.quantity x qty_per_unit of the     *)
(* item's recipe line; orders of other dates contribute nothing.           *)
(***************************************************************************)
C10_RequirementAggregation ==
    GateReached =>
        /\ { response.result.required[k].item : k \in DOMAIN response.result.required }
             = RequiredItems
        /\ Len(response.result.required) = Cardinality(RequiredItems)
        /\ \A k \in DOMAIN response.result.required :
            LET req == response.result.required[k]
            IN  /\ req.quantity = Needed(req.item)
                /\ req.unit = UnitOf(req.item)

\* Two orders of the run's date were added up: 600 capucino and 5 Latte
C10_Witness ==
    /\ GateReached
    /\ Cardinality(PlannedOrders) = 2
    /\ \E k \in DOMAIN response.result.required :
        /\ response.result.required[k].item = "beans"
        /\ response.result.required[k].quantity = 6040

(***************************************************************************)
(* Production runs of either kitchen program                               *)
(***************************************************************************)
IsBoot == response.op = "boot_production"

\* A run, by the route or at startup, that got its orders feed
IsRun ==
    /\ IsProduction \/ IsBoot
    /\ response.date # ""
    /\ response.orders_ok

DailyOrders ==
    { i \in DOMAIN response.orders : response.orders[i].date = response.date }

UnknownOrders ==
    { i \in DailyOrders : response.orders[i].product \notin DOMAIN RECIPES }

\* The products of the run's date that have no recipe, in feed order
SkippedList ==
    LET unknown == SelectSeq(response.orders,
                             LAMBDA o : /\ o.date = response.date
                                        /\ o.product \notin DOMAIN RECIPES)
    IN  [k \in DOMAIN unknown |-> unknown[k].product]

RowsFor(batch, d) == Len(SelectSeq(batch, LAMBDA r : r.production_date = d))

NoOrdersReported ==
    /\ ~ response.result.stock_fetched
    /\ response.result.inserted_rows = 0
    /\ response.result.required = << >>
    /\ IsProduction => /\ response.result.status = "no_orders"
                       /\ response.result.http_status = 200
    /\ IsBoot => /\ response.result.printed = "No orders"
                 /\ response.result.raised = "none"

C12_NoOrdersShortCircuit ==
    [][ (IsRun' /\ DailyOrders' = {})
        => (batch_consumption' = batch_consumption /\ NoOrdersReported') ]_vars

\* The feed held orders, none for the run's date, and rows of an earlier run
\* were in the table
C12_Witness ==
    /\ IsProduction
    /\ IsRun
    /\ response.orders # << >>
    /\ DailyOrders = {}
    /\ response.result.status = "no_orders"
    /\ batch_consumption # << >>

(***************************************************************************)
(* C13: a run for a date that has orders, none with a recipe, ends in the  *)
(* no-recipes-matched result, distinct from that of a committed run, with  *)
(* the skipped products listed, and writes no batch_consumption row.       *)
(* (Violated: start_production of kitchen_app.py has no such exit; it      *)
(* fetches the stock, commits an empty transaction and prints "Production  *)
(* completed".)                                                            *)
(***************************************************************************)
NoRecipesReported ==
    /\ response.result.inserted_rows = 0
    /\ IsProduction => /\ response.result.status = "no_recipes_matched"
                       /\ response.result.http_status = 200
                       /\ response.result.skipped_products = SkippedList
                       /\ response.result.skipped_products # << >>
    /\ IsBoot => response.result.printed # "Production completed"

C13_NoRecipesMatched ==
    [][ (IsRun' /\ DailyOrders' # {} /\ PlannedOrders' = {})
        => (batch_consumption' = batch_consumption /\ NoRecipesReported') ]_vars

(***************************************************************************)
(* C14: production runs are not idempotent: every committed run adds one   *)
(* row per required item for its date, whatever rows of that date the      *)
(* table already holds, and changes the row count of no other date; so n   *)
(* committed runs of a date with k required items leave n x k rows for it. *)
(***************************************************************************)
C14_RerunAppendsDuplicates ==
    [][ (GateReached' /\ ShortItems' = {})
        => \A i \in DOMAIN Dates :
              RowsFor(batch_consumption', Dates[i]) =
                  RowsFor(batch_consumption, Dates[i])
                  + (IF Dates[i] = response'.date THEN Cardinality(RequiredItems') ELSE 0) ]_vars

\* The same date committed twice with the same orders: 2 x 2 rows, each row twice
C14_Witness ==
    /\ GateReached
    /\ ShortItems = {}
    /\ response.result.status = "success"
    /\ Cardinality(RequiredItems) = 2
    /\ RowsFor(batch_consumption, response.date) = 4
    /\ \A i \in DOMAIN batch_consumption :
        \E j \in DOMAIN batch_consumption : i # j /\ batch_consumption[i] = batch_consumption[j]

(***************************************************************************)
(* C16: commit atomicity of a batch: when an INSERT of the insert loop     *)
(* fails, the batch_consumption table is what it was before the run, so no *)
(* later GET /batch shows a row of that batch; the route answers 500.      *)
(***************************************************************************)
StoreFailed == IsProduction /\ response.store_failed_at > 0

C16_CommitAtomicity ==
    [][ StoreFailed'
        => /\ batch_consumption' = batch_consumption
           /\ \A i \in DOMAIN Dates :
                get_batch(batch_consumption', Dates[i]) = get_batch(batch_consumption, Dates[i])
           /\ response'.result.http_status = 500
           /\ response'.result.inserted_rows = 0 ]_vars

\* The second INSERT of a batch failed, after the first row was written to the
\* open transaction, and the table holds no row of the run's date
C16_Witness ==
    /\ StoreFailed
    /\ response.store_failed_at = 2
    /\ response.result.status = "error"
    /\ get_batch(batch_consumption, response.date) = << >>

(***************************************************************************)
(* C20, as stated: every run with a date ends in one of NoOrders,          *)
(* NoRecipeMatch, Infeasible, Committed.  (Violated: a run whose orders or *)
(* stock fetch fails ends in an upstream error, 502.)                      *)
(***************************************************************************)
Outcome == response.result.status

OutcomeByInputs ==
    IF ~ response.orders_ok THEN "error"
    ELSE IF DailyOrders = {} THEN "no_orders"
    ELSE IF PlannedOrders = {} THEN "no_recipes_matched"
    ELSE IF ~ response.stock_ok THEN "error"
    ELSE IF ShortItems # {} THEN "insufficient"
    ELSE "success"

IsPrefixOf(s, t) == Len(s) <= Len(t) /\ SubSeq(t, 1, Len(s)) = s

\* C15: append-only logs. No operation of any service changes a field of a
\* committed procurement_log or batch_consumption row or removes the row:
\* every step leaves each log as it was or adds rows at its end.
C15_AppendOnlyLogs ==
    [][ /\ IsPrefixOf(procurement_log, procurement_log')
        /\ IsPrefixOf(batch_consumption, batch_consumption') ]_vars

\* A second request for an item was logged after the first, which is still
\* there as written
C15_Witness ==
    /\ Len(procurement_log) = 2
    /\ procurement_log[1].item_name = procurement_log[2].item_name
    /\ procurement_log[1].status = "submitted"
    /\ response.op = "manual_purchase_request"

(***************************************************************************)
(* Overlapping consumption calls                                            *)
(***************************************************************************)
\* What a batch takes of one item, summed over its rows
RECURSIVE ConsumedOf(_, _)
ConsumedOf(consumption, item) ==
    IF consumption = << >> THEN 0
    ELSE (IF Head(consumption).item = item THEN Head(consumption).quantity.v ELSE 0)
         + ConsumedOf(Tail(consumption), item)

\* Every call has returned from conn.commit()
AllCommitted == \A p \in Procs : threads[p].pc = "done" /\ threads[p].committed

\* An UPDATE computed from a quantity that was no longer the committed one
StaleWrite(p) ==
    \E k \in DOMAIN threads[p].trace :
        threads[p].trace[k].current # threads[p].trace[k].visible

\* C17: no lost update on the stock ledger. When two overlapping
\* apply_consumption calls have both committed, every seeded item stands at
\* max(s - q1 - q2, 0), s its committed stock before the calls and q1, q2 what
\* the calls took of it, and no UPDATE was computed from a stale read.
C17_NoLostUpdate ==
    AllCommitted =>
        /\ \A item \in DOMAIN SEED_INVENTORY :
              inventory[item] =
                  Max(SEED_INVENTORY[item]
                        - SumOver(Procs, [p \in Procs |->
                                             ConsumedOf(threads[p].consumption, item)]),
                      0)
        /\ \A p \in Procs : ~ StaleWrite(p)

\* The call stands between its open-request check and its log insert
Dispatching(p) == threads[p].pc \in {"check", "post"}

\* Rows of a log that are open for an item
OpenRowsIn(log, item) ==
    { k \in DOMAIN log : log[k].item_name = item /\ log[k].status \in OpenStatuses }

\* The procurement log with the rows of the open transactions
LogWithPending ==
    procurement_log \o threads[1].pending \o threads[2].pending

\* The call's trigger fired for the item
FiredFor(p, item) ==
    \E k \in DOMAIN threads[p].trace :
        threads[p].trace[k].item = item /\ threads[p].trace[k].fired

\* C18 as stated: the open-request check and the log insert of a dispatch are
\* not guarded, so a call that stands between them holds nothing that keeps
\* another consumption call from checking and inserting too.
C18_CheckThenInsertUnguarded ==
    \A p \in Procs : Dispatching(p) => db_lock # p

\* C18: a dispatch made by apply_consumption runs inside the transaction its
\* stock UPDATE opened: the call holds the store's write lock from the UPDATE
\* to its commit, so no two consumption calls are between check and insert at
\* once, a call that checks reads every row committed by the calls before it,
\* and concurrent consumption calls whose triggers both fire leave at most one
\* open row per item.
C18_DispatchesSerialized ==
    /\ \A p \in Procs : Dispatching(p) => db_lock = p
    /\ \A p, q \in Procs : Dispatching(p) /\ Dispatching(q) => p = q
    /\ \A p, q \in Procs : threads[p].pending # << >> /\ threads[q].pending # << >> => p = q
    /\ \A item \in DOMAIN SEED_INVENTORY :
          Cardinality(OpenRowsIn(LogWithPending, item)) <= 1

\* Both calls read beans at 10000 before either wrote, both triggers fired;
\* the first dispatch was submitted and the second call found its row
C18_Witness ==
    /\ AllCommitted
    /\ \A p \in Procs : FiredFor(p, "beans") /\ threads[p].trace[1].current = 10000
    /\ \E p, q \in Procs :
          /\ p # q
          /\ \E k \in DOMAIN threads[p].trace :
                threads[p].trace[k].dispatched /\ threads[p].trace[k].status = "submitted"
          /\ \E k \in DOMAIN threads[q].trace :
                threads[q].trace[k].saw_open /\ ~ threads[q].trace[k].dispatched
    /\ Cardinality(OpenRowsIn(procurement_log, "beans")) = 1

\* The inventory table between whole calls: as seeded, or as a call that
\* committed left it
Boundaries ==
    {init_db.inventory}
        \cup { threads[p].inv : p \in { q \in Procs : threads[q].pc = "done"
                                                      /\ threads[q].committed } }

\* C19: a single apply_consumption call is atomic to concurrent readers. The
\* inventory table that other connections read, and every answer of GET /stock
\* (which the kitchen's stock snapshot is), show the quantities from before a
\* whole call or from after it, never those of a call with only some of its
\* rows applied or of a call that did not commit.
C19_ReadersSeeCommitted ==
    /\ inventory \in Boundaries
    /\ response.op = "get_stock" =>
          response.stock \in { get_stock(S) : S \in Boundaries }

\* A call has applied the first of its two rows and not the second, and a
\* reader has been answered meanwhile with the quantities from before the call
C19_Witness ==
    \E p \in Procs :
        /\ threads[p].in_tx
        /\ Len(threads[p].consumption) = 2
        /\ Len(threads[p].trace) = 1
        /\ threads[p].inv # inventory
        /\ response.op = "get_stock"
        /\ response.stock = get_stock(inventory)
        /\ response.stock # get_stock(threads[p].inv)

(***************************************************************************)
(* Error handling of the production run                                    *)
(***************************************************************************)
\* A run whose orders fetch failed, or whose stock snapshot was requested and
\* failed
FetchFailed ==
    /\ IsProduction \/ IsBoot
    /\ response.date # ""
    /\ response.store_failed_at = 0
    /\ \/ ~ response.orders_ok
       \/ response.result.stock_fetched /\ ~ response.stock_ok

\* The caller got the upstream error: 502 with status error from the route,
\* the HTTPError itself from the run at startup
UpstreamErrorSurfaced ==
    IF IsBoot
    THEN response.result.raised = "HTTPError" /\ response.result.printed = ""
    ELSE response.result.http_status = 502 /\ response.result.status = "error"

\* C21: a production run whose Orders fetch or Stock snapshot fetch fails is
\* aborted and surfaced to the caller as an upstream error, writes no
\* BatchConsumptionRecord and reports none; the run makes each fetch once (a
\* failed Orders fetch ends it before the stock snapshot is requested), and
\* only a failed fetch is surfaced so.
C21_UpstreamErrorAborts ==
    [][ /\ FetchFailed' =>
              /\ UpstreamErrorSurfaced'
              /\ batch_consumption' = batch_consumption
              /\ response'.result.inserted_rows = 0
              /\ response'.result.required = << >>
              /\ ~ response'.orders_ok => ~ response'.result.stock_fetched
        /\ ((IsProduction' \/ IsBoot') /\ UpstreamErrorSurfaced') => FetchFailed' ]_vars

\* The orders fetch of a run failed after an earlier run had committed its
\* rows: 502, no stock snapshot asked for, the table as it was
C21_Witness ==
    /\ IsProduction
    /\ response.date # ""
    /\ ~ response.orders_ok
    /\ response.result.http_status = 502
    /\ ~ response.result.stock_fetched
    /\ batch_consumption # << >>

(***************************************************************************)
(* Validation of requests to the inventory service                         *)
(***************************************************************************)
\* A body of POST /purchase-request that lacks a required field or carries a
\* quantity or cost that is no number
MalformedRequest(data) ==
    \/ ~ ({"item_name", "quantity_needed", "estimated_cost"} \subseteq DOMAIN data)
    \/ data.quantity_needed.t # "int"
    \/ data.estimated_cost.t # "int"

\* A consumption batch with a row the loop cannot read, at any position
MalformedBatch(consumption) ==
    \E k \in DOMAIN consumption : ~ WellFormed(consumption[k])

\* C22: missing or malformed input is rejected before any state change: a
\* manual purchase request lacking a required field or with a non-numeric
\* quantity or cost, and a consumption batch with a malformed row at any
\* position, leave the Stock Ledger and the Procurement Log unchanged and
\* cause no Approval call.
C22_MalformedInputRejected ==
    [][ /\ (response'.op = "manual_purchase_request" /\ MalformedRequest(response'.data))
              => /\ inventory' = inventory
                 /\ procurement_log' = procurement_log
                 /\ purchase_requests' = purchase_requests
                 /\ response'.calls = 0
                 /\ response'.http_status = 400
        /\ (IsConsumption' /\ MalformedBatch(response'.consumption))
              => /\ inventory' = inventory
                 /\ procurement_log' = procurement_log
                 /\ purchase_requests' = purchase_requests
                 /\ response'.calls = 0 ]_vars

(***************************************************************************)
(* Dispatches of the consumption call                                      *)
(***************************************************************************)
\* Trace entries of the last consumption call whose dispatch passed the guard
DispatchedEntries == { k \in DOMAIN response.trace : Dispatched(response.trace[k]) }

\* C23: no retry in a dispatch. A dispatch that passes the open-request guard
\* makes exactly one Approval call and one log insert, whatever the call
\* returned; a row whose dispatch is blocked by the guard, or whose trigger
\* does not fire, makes none of either. Over the whole call: as many Approval
\* calls as dispatches, at most that many requests recorded at Finance, and
\* that many rows committed.
C23_NoRetryInDispatch ==
    [][ IsConsumption' =>
          /\ \A k \in DOMAIN response'.trace :
                LET e == response'.trace[k]
                    n == IF Dispatched(e) THEN 1 ELSE 0
                IN  /\ e.calls_after = e.calls_before + n
                    /\ e.log_after = e.log_before + n
                    /\ Len(e.logged) = n
          /\ response'.calls = Cardinality(DispatchedEntries')
          /\ Len(purchase_requests') - Len(purchase_requests) <= response'.calls
          /\ ~ response'.raised =>
                Len(procurement_log') - Len(procurement_log) = response'.calls ]_vars

\* The one Approval call of a dispatch never reached Finance: one call, one
\* failed row, nothing recorded at Finance
C23_Witness ==
    /\ IsConsumption
    /\ ~ response.raised
    /\ response.calls = 1
    /\ \E k \in DispatchedEntries :
          /\ response.trace[k].http = 0
          /\ response.trace[k].logged[1].status = "failed"
    /\ purchase_requests = << >>
    /\ Len(procurement_log) = 1

(***************************************************************************)
(* Rows of the procurement log                                             *)
(***************************************************************************)
\* C24: every row ever written to the Procurement Log, by the dispatcher or
\* by the manual purchase-request endpoint, has quantity_needed > 0, and no
\* request with a quantity <= 0 is recorded at Finance.
C24_QuantityNeededPositive ==
    /\ \A k \in DOMAIN procurement_log : procurement_log[k].quantity_needed > 0
    /\ \A k \in DOMAIN purchase_requests : purchase_requests[k].quantity_needed > 0

(***************************************************************************)
(* Items the ledger does not know                                          *)
(***************************************************************************)
\* C25: consuming an item that is not in the Stock Ledger creates it with its
\* current quantity treated as 0 and leaves it at 0 after the row (for any
\* consumed quantity >= 0); the row raises no error, fires no trigger, makes
\* no Approval call and logs no request.
C25_UnknownItemCreatedAtZero ==
    [][ IsConsumption' =>
          \A k \in DOMAIN response'.trace :
              LET e == response'.trace[k]
              IN  (e.item \notin DOMAIN inventory /\ e.quantity >= 0) =>
                      /\ e.current = 0
                      /\ e.new_qty = 0
                      /\ ~ e.fired
                      /\ e.calls_after = e.calls_before
                      /\ e.logged = << >>
                      /\ \A m \in DOMAIN procurement_log' :
                            procurement_log'[m].item_name # e.item
                      /\ ~ MalformedBatch(response'.consumption) =>
                            /\ ~ response'.raised
                            /\ e.item \in DOMAIN inventory'
                            /\ inventory'[e.item] = 0 ]_vars

\* Five units of sugar were consumed: the ledger now has sugar at 0, and no
\* request was made for it
C25_Witness ==
    /\ IsConsumption
    /\ ~ response.raised
    /\ \E k \in DOMAIN response.trace :
          /\ response.trace[k].item = "sugar"
          /\ response.trace[k].quantity = 5
          /\ response.trace[k].current = 0
    /\ "sugar" \in DOMAIN inventory
    /\ inventory["sugar"] = 0
    /\ "sugar" \notin DOMAIN SEED_INVENTORY
    /\ response.calls = 0

\* C26: order_id is unique across the Procurement Log: no two rows share an
\* order_id, two dispatches for one item within the same clock second
\* included.
C26_OrderIdUnique ==
    \A i, j \in DOMAIN procurement_log :
        procurement_log[i].order_id = procurement_log[j].order_id => i = j

(***************************************************************************)
(* Frame of the stock ledger                                               *)
(***************************************************************************)
\* A consumption call of the concurrent kind commits in this step
CallCommits == \E p \in Procs : threads[p].pc = "commit" /\ threads'[p].pc = "done"

\* C27: the Stock Ledger is changed only by consumption. A production run of
\* any outcome, a manual purchase request, GET stock and GET batch leave every
\* item and quantity as they were; a consumption call leaves each item at what
\* its last row for the item wrote, whatever its dispatches did at Finance,
\* and every other item untouched; no step removes an item.
C27_LedgerChangedOnlyByConsumption ==
    [][ /\ DOMAIN inventory \subseteq DOMAIN inventory'
        /\ inventory' # inventory => (IsConsumption' \/ CallCommits)
        /\ response'.op \in KitchenOps \cup {"manual_purchase_request", "get_stock"}
              => inventory' = inventory
        /\ (IsConsumption' /\ ~ response'.raised) =>
              \A item \in DOMAIN inventory' :
                  LET k == LastEntryOf(response'.trace, item)
                  IN  IF k = 0
                      THEN item \in DOMAIN inventory /\ inventory'[item] = inventory[item]
                      ELSE inventory'[item] = response'.trace[k].new_qty
        /\ (IsConsumption' /\ response'.raised) => inventory' = inventory ]_vars

\* Beans were consumed down to 1000 and the request for them was submitted;
\* a reader then finds the ledger at 1000 beans and the untouched milk
C27_Witness ==
    /\ response.op = "get_stock"
    /\ inventory = [beans |-> 1000, milk |-> 100000]
    /\ \E k \in DOMAIN procurement_log :
          /\ procurement_log[k].item_name = "beans"
          /\ procurement_log[k].status = "submitted"
          /\ procurement_log[k].current_stock = 1000

(***************************************************************************)
(* Rows of the batch log                                                   *)
(***************************************************************************)
\* C28: every BatchConsumptionRecord ever committed has quantity >= 0,
\* whatever orders the feed returns, orders of zero or negative quantity
\* included.
C28_BatchQuantityNonNegative ==
    \A k \in DOMAIN batch_consumption : batch_consumption[k].quantity >= 0

(***************************************************************************)
(* Manual purchase requests                                                *)
(***************************************************************************)
IsManual == response.op = "manual_purchase_request"

\* C29: a manual purchase request with all required fields and numeric values
\* makes exactly one Approval call and appends exactly one Procurement Log
\* row for its item and quantity, whether or not the log holds an open request
\* for the item; the row is submitted iff Finance answered with a success
\* status and failed otherwise; the endpoint answers 502 iff the row is failed
\* and 200 otherwise; the ledger is not touched.
C29_ManualRequestLogsOnce ==
    [][ (IsManual' /\ ~ MalformedRequest(response'.data)) =>
          LET n == Len(procurement_log')
          IN  /\ response'.calls = 1
              /\ n = Len(procurement_log) + 1
              /\ SubSeq(procurement_log', 1, n - 1) = procurement_log
              /\ procurement_log'[n].item_name = response'.data.item_name
              /\ procurement_log'[n].quantity_needed = response'.data.quantity_needed.v
              /\ procurement_log'[n].status = response'.status
              /\ response'.status \in {"submitted", "failed"}
              /\ response'.status = "submitted" <=> response'.finance_http_status \in 200 .. 299
              /\ response'.http_status = 502 <=> response'.status = "failed"
              /\ response'.http_status = 200 <=> response'.status = "submitted"
              /\ Len(purchase_requests') <= Len(purchase_requests) + 1
              /\ inventory' = inventory ]_vars

\* A request for beans stood submitted when a second one for beans was sent
\* and Finance answered 500: the second was logged as failed and answered 502
C29_Witness ==
    /\ IsManual
    /\ Len(procurement_log) = 2
    /\ procurement_log[1].item_name = "beans"
    /\ procurement_log[1].status = "submitted"
    /\ procurement_log[2].item_name = "beans"
    /\ procurement_log[2].status = "failed"
    /\ response.finance_http_status = 500
    /\ response.http_status = 502
    /\ response.calls = 1

(***************************************************************************)
(* Quantity asked for by the dispatcher                                    *)
(***************************************************************************)
\* C30: whenever the auto-dispatcher issues a request, the half-baseline floor
\* is not the binding term. The trigger fired at 0 <= remaining <= baseline/10,
\* so quantity_needed is baseline - remaining exactly: the logged
\* current_stock (the quantity the row left) plus quantity_needed is the
\* item's baseline, and quantity_needed >= 0.9 x baseline, above the floor.
C30_FloorNeverBinds ==
    /\ \A k \in DOMAIN procurement_log :
          LET row == procurement_log[k]
          IN  /\ row.item_name \in DOMAIN SEED_INVENTORY
              /\ row.current_stock >= 0
              /\ LowStockDivisor * row.current_stock <= SEED_INVENTORY[row.item_name]
              /\ row.quantity_needed = SEED_INVENTORY[row.item_name] - row.current_stock
              /\ row.current_stock + row.quantity_needed = SEED_INVENTORY[row.item_name]
              /\ 10 * row.quantity_needed >= 9 * SEED_INVENTORY[row.item_name]
              /\ row.quantity_needed > SEED_INVENTORY[row.item_name] \div 2
    /\ IsConsumption =>
          \A k \in DispatchedEntries :
              LET e == response.trace[k]
              IN  /\ e.logged[1].current_stock = e.new_qty
                  /\ e.logged[1].quantity_needed = SEED_INVENTORY[e.item] - e.new_qty

\* Beans were consumed to exactly a tenth of their baseline: the request asks
\* for 9000, which with the 1000 left makes the baseline of 10000
C30_Witness ==
    /\ IsConsumption
    /\ ~ response.raised
    /\ \E k \in DOMAIN procurement_log :
          /\ procurement_log[k].item_name = "beans"
          /\ procurement_log[k].current_stock = 1000
          /\ procurement_log[k].quantity_needed = 9000
    /\ inventory["beans"] = 1000

(***************************************************************************)
(* Statuses of the procurement log                                         *)
(***************************************************************************)
\* Order ids of the rows of a log that have the given status
IdsWithStatus(log, status) ==
    { log[k].order_id : k \in { m \in DOMAIN log : log[m].status = status } }

\* Rows the call inserted before its k-th consumption row, committed or not
LoggedBefore(trace, k) ==
    { trace[m].logged[1] : m \in { n \in DOMAIN trace : n < k /\ trace[n].logged # << >> } }

\* C31: no Procurement Log row ever has status pending. In every reachable
\* state each row's status is submitted or failed (the status is resolved
\* before the single insert), so the open-request check matches exactly the
\* items that have a submitted row, and the rows that blocked a dispatch were
\* submitted ones: committed before the call, or inserted earlier by it.
C31_NoPendingRow ==
    /\ \A k \in DOMAIN procurement_log :
          procurement_log[k].status \in {"submitted", "failed"}
    /\ \A item \in DOMAIN SEED_INVENTORY \cup {"sugar"} :
          has_open_procurement(procurement_log, item)
              <=> \E k \in DOMAIN procurement_log :
                      /\ procurement_log[k].item_name = item
                      /\ procurement_log[k].status = "submitted"
    /\ IsConsumption =>
          \A k \in DOMAIN response.trace :
              LET e == response.trace[k]
                  earlier == LoggedBefore(response.trace, k)
              IN  /\ \A m \in DOMAIN e.logged : e.logged[m].status \in {"submitted", "failed"}
                  /\ e.open \subseteq
                        IdsWithStatus(procurement_log, "submitted")
                            \cup { r.order_id : r \in { x \in earlier : x.status = "submitted" } }

\* A manual request for beans was submitted; the consumption call that took
\* beans to the threshold was then blocked by that row, the only one of the log
C31_Witness ==
    /\ IsConsumption
    /\ ~ response.raised
    /\ \E k \in DOMAIN response.trace :
          /\ Blocked(response.trace[k])
          /\ response.trace[k].open = {<<"MANUAL-PR", "beans", 0>>}
    /\ Len(procurement_log) = 1
    /\ procurement_log[1].status = "submitted"
    /\ procurement_log[1].order_id = <<"MANUAL-PR", "beans", 0>>

(***************************************************************************)
(* Submitted and failed requests                                           *)
(***************************************************************************)
\* The committed log holds a submitted row for the item
HasSubmitted(log, item) ==
    \E k \in DOMAIN log : log[k].item_name = item /\ log[k].status = "submitted"

\* Rows a step appended to a log
Appended(before, after) == SubSeq(after, Len(before) + 1, Len(after))

\* C32: a submitted request blocks its item forever. Once a committed row with
\* status submitted exists for an item, no later consumption call makes an
\* Approval call or appends an auto-triggered row for that item, however low
\* its stock falls; no step closes or supersedes a row of the log.
C32_SubmittedBlocksForever ==
    [][ /\ IsPrefixOf(procurement_log, procurement_log')
        /\ IsConsumption' =>
              \A item \in DOMAIN SEED_INVENTORY :
                  HasSubmitted(procurement_log, item) =>
                      /\ \A k \in DOMAIN response'.trace :
                            LET e == response'.trace[k]
                            IN  e.item = item => /\ e.calls_after = e.calls_before
                                                 /\ e.logged = << >>
                                                 /\ e.fired => Blocked(e)
                      /\ \A k \in DOMAIN Appended(procurement_log, procurement_log') :
                            Appended(procurement_log, procurement_log')[k].item_name # item
                      /\ \A k \in DOMAIN Appended(purchase_requests, purchase_requests') :
                            Appended(purchase_requests, purchase_requests')[k].item_name # item
                      /\ HasSubmitted(procurement_log', item) ]_vars

\* One submitted row for beans is all the log holds, and a call has taken the
\* beans to the threshold and then to 0: both of its dispatches were blocked
C32_Witness ==
    /\ IsConsumption
    /\ ~ response.raised
    /\ Len(response.trace) = 2
    /\ \A k \in DOMAIN response.trace :
          /\ response.trace[k].item = "beans"
          /\ Blocked(response.trace[k])
    /\ response.trace[2].new_qty = 0
    /\ inventory["beans"] = 0
    /\ response.calls = 0
    /\ Len(procurement_log) = 1
    /\ procurement_log[1].status = "submitted"

\* The committed log holds a failed row for the item
HasFailed(log, item) ==
    \E k \in DOMAIN log : log[k].item_name = item /\ log[k].status = "failed"

\* Trace entries of the last consumption call whose trigger fired
FiredEntries == { k \in DOMAIN response.trace : response.trace[k].fired }

\* C33: a failed row does not count as open. When the log, as the call sees
\* it, holds a failed row and no submitted row for an item, the next
\* consumption row for the item that leaves it at or below the threshold (a
\* row consuming 0 too) makes a new Approval call and appends a new row; while
\* Approval keeps failing, a call appends one failed row per such row.
C33_FailedRowNotOpen ==
    [][ (IsConsumption' /\ ~ response'.raised) =>
          /\ \A k \in DOMAIN response'.trace :
                LET e == response'.trace[k]
                    seen == SubSeq(procurement_log', 1, e.log_before)
                IN  ( /\ e.new_qty <= SEED_INVENTORY[e.item] \div LowStockDivisor
                      /\ HasFailed(seen, e.item)
                      /\ ~ HasSubmitted(seen, e.item) )
                    => /\ e.fired
                       /\ e.calls_after = e.calls_before + 1
                       /\ e.log_after = e.log_before + 1
                       /\ Len(e.logged) = 1
                       /\ e.logged[1].item_name = e.item
                       /\ procurement_log'[e.log_after] = e.logged[1]
          /\ ( \A k \in DOMAIN procurement_log' : procurement_log'[k].status = "failed" )
                => /\ Len(procurement_log') - Len(procurement_log)
                         = Cardinality(FiredEntries')
                   /\ response'.calls = Cardinality(FiredEntries') ]_vars

\* Finance was unreachable: the row that took the beans to 1000 logged a
\* failed request, and the next row, consuming nothing, logged another
C33_Witness ==
    /\ IsConsumption
    /\ ~ response.raised
    /\ Len(response.trace) = 2
    /\ response.trace[1].logged # << >>
    /\ response.trace[1].logged[1].status = "failed"
    /\ response.trace[2].quantity = 0
    /\ response.trace[2].new_qty = 1000
    /\ response.trace[2].calls_after = response.trace[2].calls_before + 1
    /\ response.trace[2].logged # << >>
    /\ response.trace[2].logged[1].status = "failed"
    /\ Len(procurement_log) = 2
    /\ \A k \in DOMAIN procurement_log :
          /\ procurement_log[k].item_name = "beans"
          /\ procurement_log[k].status = "failed"

(***************************************************************************)
(* The stock ledger over time                                              *)
(***************************************************************************)
\* C34: stock never recovers. With consumption rows of quantity >= 0, no step
\* of any service increases an item's committed on-hand quantity or removes
\* the item, and an item that has reached 0 stays at 0, also after a request
\* for it was submitted and approved.
\* (Violated by overlapping consumption calls: a call writes back the
\* quantity it read before another call's commit.)
C34_StockNeverRecovers ==
    [][ \A item \in DOMAIN inventory :
            /\ item \in DOMAIN inventory'
            /\ inventory'[item] <= inventory[item]
            /\ inventory[item] = 0 => inventory'[item] = 0 ]_vars

(***************************************************************************)
(* Production pulled into the ledger                                       *)
(***************************************************************************)
IsPull == response.op = "consume_from_kitchen" /\ response.http_status = 200

\* C35: committed production is always backed by stock. Whenever a
\* consumption call applies the batch rows of a committed production date,
\* each item's on-hand quantity at that moment is at least the quantity
\* deducted, so no row of a committed batch is clamped.
\* (Violated: the gate compares with a snapshot and reserves nothing.)
C35_CommittedProductionBacked ==
    IsPull => \A k \in DOMAIN response.trace :
                  response.trace[k].current >= response.trace[k].quantity

\* The batch rows of a date for one item, in table order
BatchRowsOf(batch, d, item) ==
    SelectSeq(batch, LAMBDA r : r.production_date = d /\ r.item = item)

\* A quantity after the rows were deducted from it one by one, never below 0
RECURSIVE DeductEach(_, _)
DeductEach(q, rows) ==
    IF rows = << >> THEN q
    ELSE DeductEach(Max(q - Head(rows).quantity, 0), Tail(rows))

\* C36: consumption of a production date is not guarded against repetition.
\* Every consumption request for date D deducts, per item, the quantity of
\* every batch row recorded for D at that time, duplicates of re-runs each on
\* their own, whether or not D was consumed before; the request leaves the
\* batch rows as they were, so k requests deduct k times.
C36_ConsumptionNotGuarded ==
    [][ IsPull' =>
          LET d == response'.date
          IN  /\ Len(response'.consumption) = RowsFor(batch_consumption, d)
              /\ Len(response'.trace) = RowsFor(batch_consumption, d)
              /\ \A item \in DOMAIN inventory :
                    LET rows == BatchRowsOf(batch_consumption, d, item)
                    IN  /\ inventory'[item] = DeductEach(inventory[item], rows)
                        /\ Cardinality({ k \in DOMAIN response'.trace :
                                           response'.trace[k].item = item }) = Len(rows)
              /\ \A k \in DOMAIN response'.trace :
                    /\ response'.trace[k].item = response'.consumption[k].item
                    /\ response'.trace[k].quantity = response'.consumption[k].quantity.v
              /\ batch_consumption' = batch_consumption ]_vars

\* One run was committed for the second date (50 g of beans, 750 ml of milk)
\* and the date was consumed twice: the ledger is down by twice the batch
C36_Witness ==
    /\ IsPull
    /\ response.date = Dates[2]
    /\ Len(batch_consumption) = 2
    /\ RowsFor(batch_consumption, Dates[2]) = 2
    /\ Len(response.trace) = 2
    /\ inventory["beans"] = SEED_INVENTORY["beans"] - 2 * 50
    /\ inventory["milk"] = SEED_INVENTORY["milk"] - 2 * 750

(***************************************************************************)
(* Finance's records against the procurement log                           *)
(***************************************************************************)
\* C37: cross-service consistency of procurement. Once a consumption call has
\* ended, normally or by an error, every purchase request that Finance
\* approved and recorded for an auto-triggered dispatch has a committed
\* Procurement Log row with the same order_id and status submitted.
\* (Violated: the Approval call is made before the call's commit, and an
\* error on a later row rolls the log row back.)
C37_ApprovedRequestLogged ==
    IsConsumption =>
        \A k \in DOMAIN purchase_requests :
            ( /\ purchase_requests[k].status = "APPROVED"
              /\ purchase_requests[k].order_id[1] = "PR" )
            => \E m \in DOMAIN procurement_log :
                  /\ procurement_log[m].order_id = purchase_requests[k].order_id
                  /\ procurement_log[m].status = "submitted"

====
